---- MODULE Spec2Model ----
(***************************************************************************)
(* Speculative dual decode (Either[L, R]) over a duplicated token stream.  *)
(*                                                                         *)
(* The model follows src/play/arshaler_either_test.go (second file of the  *)
(* concatenation, lines 306-840): teeReader, multiPipeWriter, TeeDecoder   *)
(* and Either.UnmarshalJSONFrom.  A token is one unit of pipe data.        *)
(***************************************************************************)
EXTENDS Integers, Sequences, FiniteSets, TLC

\* ------------------------------------------------------------------ bounds
\* largest number of units one Read call takes out of a pipe
MaxRead == 2
\* largest number of tokens the encoder holds before it has to flush
MaxBuf == 3
\* largest number of Stop calls a free client makes on one view
MaxStops == 2

\* ------------------------------------------------------------ token source
Views == {"l", "r"}

Other(v) == IF v = "l" THEN "r" ELSE "l"

IsOpenTok(t) == t \in {"{", "["}

IsCloseTok(t) == t \in {"}", "]"}

IsScalarTok(t) == t \in {"s", "n", "f", "z"}

\* structural depth after the tokens of s, relative to the depth on entry
RECURSIVE Depth(_)
Depth(s) ==
  IF s = <<>> THEN 0
  ELSE LET t == s[Len(s)]
           d == Depth(SubSeq(s, 1, Len(s) - 1))
       IN  IF IsOpenTok(t) THEN d + 1
           ELSE IF IsCloseTok(t) THEN d - 1 ELSE d

\* the documents a source may hold: the value on entry, then what follows it
Docs ==
  { <<"[", "n", "]", "n">>,
    <<"[", "[", "]", "]">>,
    <<"s", "n">>,
    <<"n">>,
    <<"]">> }

CompositeDocs == { d \in Docs : IsOpenTok(d[1]) }

ScalarDocs == { d \in Docs : IsScalarTok(d[1]) }

\* number of tokens of the value a document starts with
ValueLen(d) ==
  IF ~IsOpenTok(d[1]) THEN 1
  ELSE CHOOSE k \in 1..Len(d) :
         /\ Depth(SubSeq(d, 1, k)) = 0
         /\ \A j \in 1..(k - 1) : Depth(SubSeq(d, 1, j)) # 0

ValueOf(d) == SubSeq(d, 1, ValueLen(d))

IsPrefix(s, t) == Len(s) <= Len(t) /\ s = SubSeq(t, 1, Len(s))

\* ------------------------------------------------------------------ errors
Nil == "nil"
EOF == "EOF"
ErrStopped == "errStopped"
ErrFailedEarly == "errFailedEarly"
ErrClosedPipe == "ErrClosedPipe"
ErrUnexpectedEOF == "ErrUnexpectedEOF"
SrcErr == "srcErr"

NoPanic == "none"
PvSrc == "pvSrc"
PvNilDeref == "pvNilDeref"
PvL == "pvL"
PvR == "pvR"

\* &panicErr{rec}
PanicErrOf(pv) == IF pv = PvSrc THEN "panicErr(pvSrc)" ELSE "panicErr(pvNilDeref)"

IsPanicErr(e) == e \in {"panicErr(pvSrc)", "panicErr(pvNilDeref)"}

PanicValueOf(e) == IF e = "panicErr(pvSrc)" THEN PvSrc ELSE PvNilDeref

Mismatch(s) == IF s = "l" THEN "mismatchL" ELSE "mismatchR"

\* the error a stopped view hands to the copy task
StopErr_swapped(successful) == IF successful THEN ErrFailedEarly ELSE ErrStopped

StopErr_alwaysStopped(successful) == ErrStopped

StopErr(successful) == IF successful THEN ErrStopped ELSE ErrFailedEarly

\* multiPipeWriter.maskedErr as TeeDecoder sets it
MaskedErr_stopped == ErrStopped

MaskedErr == ErrFailedEarly

\* ------------------------------------------------------------------- state
VARIABLES
  doc,       \* tokens of the source: the value on entry and what follows
  fault,     \* where the source fails: [kind, at]
  plan,      \* what each decode attempt does: [l |-> [kind, at], r |-> ..]
  e0,        \* the receiver before the call
  decPos,    \* tokens the source decoder has consumed
  cpc,       \* copy task: position
  buf,       \* copy task: tokens in the encoder's buffer
  wn,        \* copy task: n of the running multiPipeWriter.Write
  mw,        \* multiPipeWriter: [l |-> wl # nil, r |-> wr # nil]
  cerr,      \* copy task: err
  pipe,      \* the two io.Pipe: [v |-> [pend, rerr, werr]]
  closed,    \* teeReader.closed of each view
  mu,        \* teeReader.mu of each view: "free" or its holder
  got,       \* tokens each consumer has received from Read
  stopKind,  \* how each view was closed first: open, stopT, stopF, close
  res,       \* result of the last Read of each view
  tpc,       \* TeeDecoder client of each view: position
  mpc,       \* Either.UnmarshalJSONFrom, calling goroutine: position
  wpc,       \* Either.UnmarshalJSONFrom, R-side worker: position
  mpanic,    \* panic in flight on the calling goroutine
  panicVal,  \* panicVal (written through storeOnce)
  err,       \* [l |-> errL, r |-> errR]
  e,         \* the receiver
  ret,       \* what the call gave its caller: [kind, a, b]
  nstop,     \* calls of Stop that have returned, for each view
  spaced,    \* the source text has whitespace between the value's tokens
  werr,      \* pipe variant, copy goroutine: [l |-> errL, r |-> errR]
  rj,        \* one call of ReadJSONAt: its arguments and locals
  ou         \* one Marshal / Unmarshal of the Option and Und sample

vars == <<doc, fault, plan, e0, decPos, cpc, buf, wn, mw, cerr, pipe, closed,
          mu, got, stopKind, res, tpc, mpc, wpc, mpanic, panicVal,
          err, e, ret, nstop, spaced, werr, rj, ou>>

copyVars == <<decPos, cpc, buf, wn, mw, cerr>>
eitherVars == <<mpc, wpc, mpanic, panicVal, err, e, ret>>
\* the inputs of a call, and the calls of the other programs
inputVars == <<doc, fault, plan, e0, spaced, rj, ou>>

\* -------------------------------------------------------------------- pipe
NewPipe == [pend |-> <<>>, rerr |-> Nil, werr |-> Nil]

PipeDone(p) == p.rerr # Nil \/ p.werr # Nil

\* pipe.readCloseError
ReadCloseError_closed(p) == ErrClosedPipe

ReadCloseError(p) ==
  IF p.rerr = Nil /\ p.werr # Nil THEN p.werr ELSE ErrClosedPipe

\* pipe.writeCloseError
WriteCloseError(p) ==
  IF p.werr = Nil /\ p.rerr # Nil THEN p.rerr ELSE ErrClosedPipe

\* PipeReader.CloseWithError: the first error stays
CloseRead_noop(p, er) == p

CloseRead(p, er) ==
  [p EXCEPT !.rerr = IF @ = Nil THEN (IF er = Nil THEN ErrClosedPipe ELSE er)
                     ELSE @]

\* PipeWriter.CloseWithError: the first error stays
CloseWrite_clean(p, er) == [p EXCEPT !.werr = IF @ = Nil THEN EOF ELSE @]

CloseWrite(p, er) ==
  [p EXCEPT !.werr = IF @ = Nil THEN (IF er = Nil THEN EOF ELSE er) ELSE @]

Min(a, b) == IF a < b THEN a ELSE b

\* -------------------------------------------------------------- teeReader
\* teeReader.Stop, from Lock to Unlock
Stop_noguard(v, successful) ==
  /\ mu[v] = "free"
  /\ closed' = [closed EXCEPT ![v] = TRUE]
  /\ pipe' = [pipe EXCEPT ![v] = CloseRead(@, StopErr(successful))]
  /\ stopKind' = [stopKind EXCEPT
                    ![v] = IF successful THEN "stopT" ELSE "stopF"]
  /\ nstop' = [nstop EXCEPT ![v] = @ + 1]
  /\ UNCHANGED mu

Stop(v, successful) ==
  /\ mu[v] = "free"
  /\ IF closed[v]
     THEN UNCHANGED <<closed, pipe, stopKind>>
     ELSE /\ closed' = [closed EXCEPT ![v] = TRUE]
          /\ pipe' = [pipe EXCEPT ![v] = CloseRead(@, StopErr(successful))]
          /\ stopKind' = [stopKind EXCEPT
                            ![v] = IF successful THEN "stopT" ELSE "stopF"]
  /\ nstop' = [nstop EXCEPT ![v] = @ + 1]
  /\ UNCHANGED mu

\* the pipe read inside teeReader.Read can return
ReadReady(v) == PipeDone(pipe[v]) \/ pipe[v].pend # <<>>

\* bytes copied out of a blocked Write by one pipe read
Take(pend, k) == SubSeq(pend, 1, k)

Drop(pend, k) == SubSeq(pend, k + 1, Len(pend))

\* -------------------------------------------------------------- copy task
\* jsontext.Encoder.NeedFlush: a finished top-level value is flushed, a
\* buffer that runs full is flushed, and the buffer may run full anywhere
FlushChoices(consumed, b) ==
  IF Depth(consumed) = 0 \/ Len(b) >= MaxBuf THEN {TRUE} ELSE {TRUE, FALSE}

\* dec.StackDepth() == depth
ValueComplete_firstClose(consumed) ==
  consumed # <<>> /\ IsCloseTok(consumed[Len(consumed)])

ValueComplete(consumed) == Depth(consumed) = 0

Consumed == SubSeq(doc, 1, decPos)

\* tok, err = dec.ReadToken(); err = enc.WriteToken(tok) up to the flush
CopyRead ==
  /\ cpc = "read"
  /\ IF fault.kind # "none" /\ fault.at = decPos
     THEN /\ cerr' = (IF fault.kind = "err" THEN SrcErr ELSE PanicErrOf(PvSrc))
          /\ cpc' = "close"
          /\ UNCHANGED <<decPos, buf>>
     ELSE IF decPos = Len(doc)
     THEN /\ cerr' = EOF
          /\ cpc' = "close"
          /\ UNCHANGED <<decPos, buf>>
     ELSE /\ decPos' = decPos + 1
          /\ buf' = Append(buf, doc[decPos + 1])
          /\ \E flush \in FlushChoices(SubSeq(doc, 1, decPos + 1), buf') :
               cpc' = IF flush THEN "wl"
                      ELSE IF ValueComplete(SubSeq(doc, 1, decPos + 1))
                      THEN "close" ELSE "read"
          /\ UNCHANGED cerr
  /\ wn' = 0
  /\ UNCHANGED <<mw, pipe, closed, mu, got, stopKind, res, tpc>>
  /\ UNCHANGED eitherVars
  /\ UNCHANGED <<inputVars, werr>>
  /\ UNCHANGED nstop

\* multiPipeWriter.Write: the end of the call, n bytes written
WriteReturn_ignore(n) ==
  /\ wn' = n
  /\ cerr' = cerr
  /\ buf' = <<>>
  /\ cpc' = IF ValueComplete(Consumed) THEN "close" ELSE "read"

WriteReturn(n) ==
  /\ wn' = n
  /\ IF n # Len(buf)
     THEN /\ cerr' = ErrClosedPipe
          /\ cpc' = "close"
          /\ buf' = buf
     ELSE /\ cerr' = cerr
          /\ buf' = <<>>
          /\ cpc' = IF ValueComplete(Consumed) THEN "close" ELSE "read"

\* multiPipeWriter.Write: the write to branch v failed with er
WriteFailed_maskAll(v, er) ==
  /\ mw' = [mw EXCEPT ![v] = FALSE]
  /\ pipe' = [pipe EXCEPT ![v].pend = <<>>]
  /\ IF v = "l"
     THEN cpc' = "wr" /\ UNCHANGED <<wn, cerr, buf>>
     ELSE WriteReturn(wn)

WriteFailed(v, er) ==
  IF er = MaskedErr
  THEN /\ mw' = [mw EXCEPT ![v] = FALSE]
       /\ pipe' = [pipe EXCEPT ![v].pend = <<>>]
       /\ IF v = "l"
          THEN cpc' = "wr" /\ UNCHANGED <<wn, cerr, buf>>
          ELSE WriteReturn(wn)
  ELSE IF mw[Other(v)]
  THEN /\ mw' = [l |-> FALSE, r |-> FALSE]
       /\ pipe' = [pipe EXCEPT ![v].pend = <<>>,
                               ![Other(v)] = CloseWrite(@, er)]
       /\ cerr' = er
       /\ cpc' = "close"
       /\ UNCHANGED <<wn, buf>>
  ELSE \* CloseWithError on the nil writer of the other branch
       /\ mw' = [mw EXCEPT ![v] = FALSE]
       /\ pipe' = [pipe EXCEPT ![v].pend = <<>>]
       /\ cerr' = PanicErrOf(PvNilDeref)
       /\ cpc' = "close"
       /\ UNCHANGED <<wn, buf>>

\* the bytes multiPipeWriter.Write hands to w.wr.Write, n written to w.wl
RightChunk_rest(b, n) == SubSeq(b, n + 1, Len(b))

RightChunk(b, n) == b

\* multiPipeWriter.Write: w.wl.Write(b) starts
CopyWriteL ==
  /\ cpc = "wl"
  /\ IF ~mw.l
     THEN cpc' = "wr" /\ UNCHANGED <<mw, pipe, wn, cerr, buf>>
     ELSE IF PipeDone(pipe.l)
     THEN WriteFailed("l", WriteCloseError(pipe.l))
     ELSE /\ pipe' = [pipe EXCEPT !.l.pend = buf]
          /\ cpc' = "wlw"
          /\ UNCHANGED <<mw, wn, cerr, buf>>
  /\ UNCHANGED <<decPos, closed, mu, got, stopKind, res, tpc>>
  /\ UNCHANGED eitherVars
  /\ UNCHANGED <<inputVars, werr>>
  /\ UNCHANGED nstop

\* multiPipeWriter.Write: w.wl.Write(b) returns
CopyWriteLEnd ==
  /\ cpc = "wlw"
  /\ IF pipe.l.pend = <<>>
     THEN /\ wn' = Len(buf)
          /\ cpc' = "wr"
          /\ UNCHANGED <<mw, pipe, cerr, buf>>
     ELSE /\ PipeDone(pipe.l)
          /\ WriteFailed("l", WriteCloseError(pipe.l))
  /\ UNCHANGED <<decPos, closed, mu, got, stopKind, res, tpc>>
  /\ UNCHANGED eitherVars
  /\ UNCHANGED <<inputVars, werr>>
  /\ UNCHANGED nstop

\* multiPipeWriter.Write: w.wr.Write(b) starts
CopyWriteR ==
  /\ cpc = "wr"
  /\ IF ~mw.r
     THEN WriteReturn(wn) /\ UNCHANGED <<mw, pipe>>
     ELSE IF PipeDone(pipe.r)
     THEN WriteFailed("r", WriteCloseError(pipe.r))
     ELSE /\ pipe' = [pipe EXCEPT !.r.pend = RightChunk(buf, wn)]
          /\ cpc' = "wrw"
          /\ UNCHANGED <<mw, wn, cerr, buf>>
  /\ UNCHANGED <<decPos, closed, mu, got, stopKind, res, tpc>>
  /\ UNCHANGED eitherVars
  /\ UNCHANGED <<inputVars, werr>>
  /\ UNCHANGED nstop

\* multiPipeWriter.Write: w.wr.Write(b) returns
CopyWriteREnd_nowait ==
  /\ cpc = "wrw"
  /\ WriteReturn(Len(buf))
  /\ UNCHANGED <<mw, pipe>>
  /\ UNCHANGED <<decPos, closed, mu, got, stopKind, res, tpc>>
  /\ UNCHANGED eitherVars
  /\ UNCHANGED <<inputVars, werr>>
  /\ UNCHANGED nstop

CopyWriteREnd ==
  /\ cpc = "wrw"
  /\ IF pipe.r.pend = <<>>
     THEN WriteReturn(Len(buf)) /\ UNCHANGED <<mw, pipe>>
     ELSE /\ PipeDone(pipe.r)
          /\ WriteFailed("r", WriteCloseError(pipe.r))
  /\ UNCHANGED <<decPos, closed, mu, got, stopKind, res, tpc>>
  /\ UNCHANGED eitherVars
  /\ UNCHANGED <<inputVars, werr>>
  /\ UNCHANGED nstop

\* the deferred mw.CloseWithError(err) and wg.Done of the copy task
CopyClose ==
  /\ cpc = "close"
  /\ pipe' = [v \in Views |->
                IF mw[v] THEN CloseWrite(pipe[v], cerr) ELSE pipe[v]]
  /\ mw' = [l |-> FALSE, r |-> FALSE]
  /\ cpc' = "done"
  /\ UNCHANGED <<decPos, buf, wn, cerr, closed, mu, got, stopKind, res, tpc>>
  /\ UNCHANGED eitherVars
  /\ UNCHANGED <<inputVars, werr>>
  /\ UNCHANGED nstop

CopyTask ==
  \/ CopyRead
  \/ CopyWriteL
  \/ CopyWriteLEnd
  \/ CopyWriteR
  \/ CopyWriteREnd
  \/ CopyClose

\* wait(), that is wg.Wait of TeeDecoder, can return
CopyJoined_nowait == TRUE

CopyJoined == cpc = "done"

\* ------------------------------------------------ clients of TeeDecoder
\* a client goroutine per view calls Read, Stop and Close in any order
NoFault == [kind |-> "none", at |-> 0]

Faults(d, from) ==
  {NoFault} \cup
  {[kind |-> k, at |-> a] : k \in {"err", "panic"},
                            a \in from..(ValueLen(d) - 1)}

NoPlan == [l |-> [kind |-> "accept", at |-> 0],
           r |-> [kind |-> "accept", at |-> 0]]

Zero == <<>>

ZeroEither == [isRight |-> FALSE, l |-> Zero, r |-> Zero]

Running == [kind |-> "running", a |-> Nil, b |-> Nil]

\* a program that is not running in this specification
NoCall == [pc |-> "off"]

\* TeeDecoder has returned: for '[' and '{' two teeReader and the copy task,
\* for a scalar two bufReader over the value it has read
InitTee ==
  /\ doc \in CompositeDocs \cup ScalarDocs
  /\ fault \in (IF doc \in CompositeDocs THEN Faults(doc, 1) ELSE {NoFault})
  /\ plan = NoPlan
  /\ e0 = ZeroEither
  /\ decPos = (IF doc \in CompositeDocs THEN 0 ELSE 1)
  /\ cpc = (IF doc \in CompositeDocs THEN "read" ELSE "idle")
  /\ buf = <<>>
  /\ wn = 0
  /\ mw = [l |-> TRUE, r |-> TRUE]
  /\ cerr = Nil
  /\ pipe = [v \in Views |-> NewPipe]
  /\ closed = [v \in Views |-> FALSE]
  /\ mu = [v \in Views |-> "free"]
  /\ got = [v \in Views |-> <<>>]
  /\ stopKind = [v \in Views |-> "open"]
  /\ res = [v \in Views |-> "none"]
  /\ tpc = [v \in Views |-> IF doc \in CompositeDocs THEN "idle" ELSE "buf"]
  /\ mpc = "off"
  /\ wpc = "off"
  /\ mpanic = NoPanic
  /\ panicVal = NoPanic
  /\ err = [v \in Views |-> Nil]
  /\ e = ZeroEither
  /\ ret = Running
  /\ nstop = [v \in Views |-> 0]
  /\ spaced = FALSE
  /\ werr = [v \in Views |-> Nil]
  /\ rj = NoCall
  /\ ou = NoCall

\* teeReader.Read: Lock and the closed check
TeeRead(v) ==
  /\ tpc[v] = "idle"
  /\ mu[v] = "free"
  /\ IF closed[v]
     THEN /\ res' = [res EXCEPT ![v] = EOF]
          /\ UNCHANGED <<mu, tpc>>
     ELSE /\ mu' = [mu EXCEPT ![v] = "client"]
          /\ tpc' = [tpc EXCEPT ![v] = "rd"]
          /\ UNCHANGED res
  /\ UNCHANGED <<pipe, closed, got, stopKind>>
  /\ UNCHANGED copyVars
  /\ UNCHANGED eitherVars
  /\ UNCHANGED <<inputVars, werr>>
  /\ UNCHANGED nstop

\* teeReader.Read: r.r.Read(p) returns, then Unlock
TeeReadEnd(v) ==
  /\ tpc[v] = "rd"
  /\ ReadReady(v)
  /\ IF PipeDone(pipe[v])
     THEN /\ res' = [res EXCEPT ![v] = ReadCloseError(pipe[v])]
          /\ tpc' = [tpc EXCEPT ![v] =
                       IF IsPanicErr(ReadCloseError(pipe[v]))
                       THEN "panicked" ELSE "idle"]
          /\ UNCHANGED <<pipe, got>>
     ELSE \E k \in 1..Min(MaxRead, Len(pipe[v].pend)) :
            /\ got' = [got EXCEPT ![v] = @ \o Take(pipe[v].pend, k)]
            /\ pipe' = [pipe EXCEPT ![v].pend = Drop(@, k)]
            /\ res' = [res EXCEPT ![v] = "data"]
            /\ tpc' = [tpc EXCEPT ![v] = "idle"]
  /\ mu' = [mu EXCEPT ![v] = "free"]
  /\ UNCHANGED <<closed, stopKind>>
  /\ UNCHANGED copyVars
  /\ UNCHANGED eitherVars
  /\ UNCHANGED <<inputVars, werr>>
  /\ UNCHANGED nstop

\* teeReader.Stop called by the client of the view
TeeStop(v, successful) ==
  /\ tpc[v] = "idle"
  /\ nstop[v] < MaxStops
  /\ Stop(v, successful)
  /\ UNCHANGED <<got, res, tpc>>
  /\ UNCHANGED copyVars
  /\ UNCHANGED eitherVars
  /\ UNCHANGED <<inputVars, werr>>

\* teeReader.Close: Lock, the closed check, closed = true
TeeClose(v) ==
  /\ tpc[v] = "idle"
  /\ mu[v] = "free"
  /\ IF closed[v]
     THEN UNCHANGED <<closed, stopKind, mu, tpc>>
     ELSE /\ closed' = [closed EXCEPT ![v] = TRUE]
          /\ stopKind' = [stopKind EXCEPT ![v] = "close"]
          /\ mu' = [mu EXCEPT ![v] = "client"]
          /\ tpc' = [tpc EXCEPT ![v] = "cls"]
  /\ UNCHANGED <<pipe, got, res>>
  /\ UNCHANGED copyVars
  /\ UNCHANGED eitherVars
  /\ UNCHANGED <<inputVars, werr>>
  /\ UNCHANGED nstop

\* teeReader.Close: the one last read returns, r.r.Close(), Unlock
TeeCloseEnd(v) ==
  /\ tpc[v] = "cls"
  /\ ReadReady(v)
  /\ IF PipeDone(pipe[v])
     THEN IF IsPanicErr(ReadCloseError(pipe[v]))
          THEN /\ tpc' = [tpc EXCEPT ![v] = "panicked"]
               /\ UNCHANGED pipe
          ELSE /\ tpc' = [tpc EXCEPT ![v] = "idle"]
               /\ pipe' = [pipe EXCEPT ![v] = CloseRead(@, Nil)]
     ELSE /\ tpc' = [tpc EXCEPT ![v] = "idle"]
          /\ pipe' = [pipe EXCEPT
                        ![v] = CloseRead([@ EXCEPT !.pend = Drop(@, 1)], Nil)]
  /\ mu' = [mu EXCEPT ![v] = "free"]
  /\ UNCHANGED <<closed, got, stopKind, res>>
  /\ UNCHANGED copyVars
  /\ UNCHANGED eitherVars
  /\ UNCHANGED <<inputVars, werr>>
  /\ UNCHANGED nstop

\* bufReader.Read: the view of a scalar value, a bytes.Reader over val
BufRead(v) ==
  /\ tpc[v] = "buf"
  /\ IF closed[v] \/ got[v] = <<doc[1]>>
     THEN /\ res' = [res EXCEPT ![v] = EOF]
          /\ UNCHANGED got
     ELSE /\ got' = [got EXCEPT ![v] = <<doc[1]>>]
          /\ res' = [res EXCEPT ![v] = "data"]
  /\ UNCHANGED <<pipe, closed, mu, stopKind, tpc>>
  /\ UNCHANGED copyVars
  /\ UNCHANGED eitherVars
  /\ UNCHANGED <<inputVars, werr>>
  /\ UNCHANGED nstop

\* bufReader.Close
BufClose(v) ==
  /\ tpc[v] = "buf"
  /\ closed' = [closed EXCEPT ![v] = TRUE]
  /\ stopKind' = [stopKind EXCEPT ![v] = IF @ = "open" THEN "close" ELSE @]
  /\ UNCHANGED <<pipe, mu, got, res, tpc>>
  /\ UNCHANGED copyVars
  /\ UNCHANGED eitherVars
  /\ UNCHANGED <<inputVars, werr>>
  /\ UNCHANGED nstop

\* bufReader.Stop
BufStop(v, successful) ==
  /\ tpc[v] = "buf"
  /\ nstop[v] < MaxStops
  /\ closed' = [closed EXCEPT ![v] = TRUE]
  /\ stopKind' = [stopKind EXCEPT
                    ![v] = IF @ # "open" THEN @
                           ELSE IF successful THEN "stopT" ELSE "stopF"]
  /\ nstop' = [nstop EXCEPT ![v] = @ + 1]
  /\ UNCHANGED <<pipe, mu, got, res, tpc>>
  /\ UNCHANGED copyVars
  /\ UNCHANGED eitherVars
  /\ UNCHANGED <<inputVars, werr>>

TeeClient ==
  \E v \in Views :
    \/ TeeRead(v)
    \/ TeeReadEnd(v)
    \/ TeeStop(v, TRUE)
    \/ TeeStop(v, FALSE)
    \/ TeeClose(v)
    \/ TeeCloseEnd(v)
    \/ BufRead(v)
    \/ BufStop(v, TRUE)
    \/ BufStop(v, FALSE)
    \/ BufClose(v)

NextTee == CopyTask \/ TeeClient

SpecTee == InitTee /\ [][NextTee]_vars

\* ------------------------------------------- Either.UnmarshalJSONFrom (tee)
\* what a decode attempt does: accept the value, reject it at a token, or
\* panic at a token (at = 0: before the first Read)
Plans(n) ==
  {[kind |-> "accept", at |-> 0]} \cup
  {[kind |-> k, at |-> a] : k \in {"fail", "panic"}, a \in 0..n}

\* the value a candidate decodes from the tokens it has read
DecodeAs(s, toks) == <<s, toks>>

Receivers ==
  { ZeroEither,
    [isRight |-> FALSE, l |-> DecodeAs("l", <<"old">>), r |-> Zero],
    [isRight |-> TRUE, l |-> Zero, r |-> DecodeAs("r", <<"old">>)] }

RetNil == [kind |-> "nil", a |-> Nil, b |-> Nil]

RetErr(er) == [kind |-> "err", a |-> er, b |-> Nil]

RetPanic(pv) == [kind |-> "panic", a |-> pv, b |-> Nil]

\* eitherErr: fmt.Errorf("... l = (%w), r = (%w)", errL, errR)
EitherErr_swapped(errL, errR) == [kind |-> "either", a |-> errR, b |-> errL]

EitherErr(errL, errR) == [kind |-> "either", a |-> errL, b |-> errR]

PvOf(s) == IF s = "l" THEN PvL ELSE PvR

PlanFires(s, g) == plan[s].kind \in {"fail", "panic"} /\ Len(g) >= plan[s].at

\* the candidate's own verdict on the tokens g it has read so far
Verdict(s, g) ==
  IF PlanFires(s, g)
  THEN IF plan[s].kind = "fail"
       THEN [k |-> "fail", v |-> Mismatch(s)]
       ELSE [k |-> "panic", v |-> PvOf(s)]
  ELSE [k |-> "go", v |-> Nil]

\* json.UnmarshalRead after a Read of its view returned x, g read so far
AfterRead_anyEnd(s, g, x) ==
  IF x = "data" THEN Verdict(s, g)
  ELSE IF IsPanicErr(x) THEN [k |-> "panic", v |-> PanicValueOf(x)]
  ELSE [k |-> "ok", v |-> Nil]

AfterRead(s, g, x) ==
  IF x = "data" THEN Verdict(s, g)
  ELSE IF x = EOF
  THEN IF g # <<>> /\ Depth(g) = 0
       THEN [k |-> "ok", v |-> Nil]
       ELSE [k |-> "fail", v |-> ErrUnexpectedEOF]
  ELSE IF IsPanicErr(x) THEN [k |-> "panic", v |-> PanicValueOf(x)]
  ELSE [k |-> "fail", v |-> x]

\* the reduction at the end of both paths: the receiver and the result
Reduce_rightFirst(errL, errR, gl, gr, cur) ==
  IF errR = Nil
  THEN [e |-> [isRight |-> TRUE, l |-> Zero, r |-> DecodeAs("r", gr)],
        ret |-> RetNil]
  ELSE IF errL = Nil
  THEN [e |-> [isRight |-> FALSE, l |-> DecodeAs("l", gl), r |-> Zero],
        ret |-> RetNil]
  ELSE [e |-> cur, ret |-> EitherErr(errL, errR)]

Reduce_keepOther(errL, errR, gl, gr, cur) ==
  IF errL = Nil
  THEN [e |-> [cur EXCEPT !.isRight = FALSE, !.l = DecodeAs("l", gl)],
        ret |-> RetNil]
  ELSE IF errR = Nil
  THEN [e |-> [cur EXCEPT !.isRight = TRUE, !.r = DecodeAs("r", gr)],
        ret |-> RetNil]
  ELSE [e |-> cur, ret |-> EitherErr(errL, errR)]

Reduce_inPlace(errL, errR, gl, gr, cur) ==
  IF errL = Nil
  THEN [e |-> [isRight |-> FALSE, l |-> DecodeAs("l", gl), r |-> Zero],
        ret |-> RetNil]
  ELSE IF errR = Nil
  THEN [e |-> [isRight |-> TRUE, l |-> Zero, r |-> DecodeAs("r", gr)],
        ret |-> RetNil]
  ELSE [e |-> [cur EXCEPT !.l = DecodeAs("l", gl)],
        ret |-> EitherErr(errL, errR)]

Reduce(errL, errR, gl, gr, cur) ==
  IF errL = Nil
  THEN [e |-> [isRight |-> FALSE, l |-> DecodeAs("l", gl), r |-> Zero],
        ret |-> RetNil]
  ELSE IF errR = Nil
  THEN [e |-> [isRight |-> TRUE, l |-> Zero, r |-> DecodeAs("r", gr)],
        ret |-> RetNil]
  ELSE [e |-> cur, ret |-> EitherErr(errL, errR)]

Init ==
  /\ doc \in Docs
  /\ fault \in Faults(doc, 0)
  /\ plan \in [l : Plans(ValueLen(doc)), r : Plans(ValueLen(doc))]
  /\ e0 \in Receivers
  /\ decPos = 0
  /\ cpc = "idle"
  /\ buf = <<>>
  /\ wn = 0
  /\ mw = [l |-> TRUE, r |-> TRUE]
  /\ cerr = Nil
  /\ pipe = [v \in Views |-> NewPipe]
  /\ closed = [v \in Views |-> FALSE]
  /\ mu = [v \in Views |-> "free"]
  /\ got = [v \in Views |-> <<>>]
  /\ stopKind = [v \in Views |-> "open"]
  /\ res = [v \in Views |-> "none"]
  /\ tpc = [v \in Views |-> "off"]
  /\ mpc = "start"
  /\ wpc = "idle"
  /\ mpanic = NoPanic
  /\ panicVal = NoPanic
  /\ err = [v \in Views |-> Nil]
  /\ e = e0
  /\ ret = Running
  /\ nstop = [v \in Views |-> 0]
  /\ spaced = FALSE
  /\ werr = [v \in Views |-> Nil]
  /\ rj = NoCall
  /\ ou = NoCall

teeVars == <<pipe, closed, mu, got, stopKind, res, tpc>>

\* dec.PeekKind() cannot give a kind: the source fails or panics at once, or
\* the next token starts no value (the default branch returns the error)
StartInvalid ==
  /\ mpc = "start"
  /\ \/ fault.at = 0 /\ fault.kind # "none"
     \/ ~(IsOpenTok(doc[1]) \/ IsScalarTok(doc[1]))
  /\ ret' = IF fault.at = 0 /\ fault.kind = "panic"
            THEN RetPanic(PvSrc) ELSE RetErr(SrcErr)
  /\ mpc' = "done"
  /\ UNCHANGED <<wpc, mpanic, panicVal, err, e>>
  /\ UNCHANGED teeVars
  /\ UNCHANGED copyVars
  /\ UNCHANGED <<inputVars, werr>>
  /\ UNCHANGED nstop

\* case 'n', 'f', 't', '"', '0': ReadValue, then L, then R, one after the other
StartScalar ==
  /\ mpc = "start"
  /\ (fault.kind = "none" \/ fault.at # 0)
  /\ IsScalarTok(doc[1])
  /\ decPos' = 1
  /\ LET val == <<doc[1]>>
         vl == Verdict("l", val)
         vr == Verdict("r", val)
     IN  IF vl.k = "panic"
         THEN /\ ret' = RetPanic(vl.v)
              /\ got' = [got EXCEPT !.l = val]
              /\ UNCHANGED <<err, e>>
         ELSE IF vl.k = "go"
         THEN /\ got' = [got EXCEPT !.l = val]
              /\ e' = Reduce(Nil, Nil, val, <<>>, e).e
              /\ ret' = Reduce(Nil, Nil, val, <<>>, e).ret
              /\ UNCHANGED err
         ELSE IF vr.k = "panic"
         THEN /\ ret' = RetPanic(vr.v)
              /\ got' = [l |-> val, r |-> val]
              /\ err' = [err EXCEPT !.l = vl.v]
              /\ UNCHANGED e
         ELSE /\ got' = [l |-> val, r |-> val]
              /\ err' = [l |-> vl.v, r |-> vr.v]
              /\ e' = Reduce(vl.v, vr.v, val, val, e).e
              /\ ret' = Reduce(vl.v, vr.v, val, val, e).ret
  /\ mpc' = "done"
  /\ UNCHANGED <<wpc, mpanic, panicVal>>
  /\ UNCHANGED <<pipe, closed, mu, stopKind, res, tpc>>
  /\ UNCHANGED <<cpc, buf, wn, mw, cerr>>
  /\ UNCHANGED <<inputVars, werr>>
  /\ UNCHANGED nstop

\* case '{', '[': TeeDecoder starts the copy task, the R-side worker is
\* started, and json.UnmarshalRead(rl, &l) begins on the calling goroutine
StartComposite ==
  /\ mpc = "start"
  /\ (fault.kind = "none" \/ fault.at # 0)
  /\ IsOpenTok(doc[1])
  /\ cpc' = "read"
  /\ LET vl == Verdict("l", <<>>)
         vr == Verdict("r", <<>>)
     IN  /\ mpc' = IF vl.k = "go" THEN "ldec"
                   ELSE IF vl.k = "fail" THEN "lstop" ELSE "d1"
         /\ mpanic' = IF vl.k = "panic" THEN vl.v ELSE mpanic
         /\ wpc' = IF vr.k = "go" THEN "rdec" ELSE "wstop"
         /\ panicVal' = IF vr.k = "panic" THEN vr.v ELSE panicVal
         /\ err' = [l |-> IF vl.k = "fail" THEN vl.v ELSE Nil,
                    r |-> IF vr.k = "fail" THEN vr.v ELSE Nil]
  /\ UNCHANGED <<e, ret>>
  /\ UNCHANGED teeVars
  /\ UNCHANGED <<decPos, buf, wn, mw, cerr>>
  /\ UNCHANGED <<inputVars, werr>>
  /\ UNCHANGED nstop

\* the calling goroutine moves on after a Read of rl gave verdict o
MainAfter(o) ==
  /\ mpc' = IF o.k = "go" THEN "ldec"
            ELSE IF o.k = "panic" THEN "d1" ELSE "lstop"
  /\ mpanic' = IF o.k = "panic" THEN o.v ELSE mpanic
  /\ err' = IF o.k = "fail" THEN [err EXCEPT !.l = o.v] ELSE err
  /\ UNCHANGED <<wpc, panicVal, e, ret>>

\* the worker moves on after a Read of rr gave verdict o; a panic is
\* recovered and kept through storeOnce
WorkerAfter_drop(o) ==
  /\ wpc' = IF o.k = "go" THEN "rdec" ELSE "wstop"
  /\ panicVal' = panicVal
  /\ err' = IF o.k = "fail" THEN [err EXCEPT !.r = o.v] ELSE err
  /\ UNCHANGED <<mpc, mpanic, e, ret>>

WorkerAfter(o) ==
  /\ wpc' = IF o.k = "go" THEN "rdec" ELSE "wstop"
  /\ panicVal' = IF o.k = "panic" /\ panicVal = NoPanic THEN o.v ELSE panicVal
  /\ err' = IF o.k = "fail" THEN [err EXCEPT !.r = o.v] ELSE err
  /\ UNCHANGED <<mpc, mpanic, e, ret>>

\* teeReader.Read called by a decode attempt: Lock and the closed check
DecRead(s) ==
  /\ IF s = "l" THEN mpc = "ldec" ELSE wpc = "rdec"
  /\ mu[s] = "free"
  /\ IF closed[s]
     THEN /\ res' = [res EXCEPT ![s] = EOF]
          /\ IF s = "l" THEN MainAfter(AfterRead(s, got[s], EOF))
                        ELSE WorkerAfter(AfterRead(s, got[s], EOF))
          /\ UNCHANGED mu
     ELSE /\ mu' = [mu EXCEPT ![s] = IF s = "l" THEN "main" ELSE "worker"]
          /\ IF s = "l" THEN mpc' = "lrd" /\ UNCHANGED wpc
                        ELSE wpc' = "rrd" /\ UNCHANGED mpc
          /\ UNCHANGED <<res, mpanic, panicVal, err, e, ret>>
  /\ UNCHANGED <<pipe, closed, got, stopKind, tpc>>
  /\ UNCHANGED copyVars
  /\ UNCHANGED <<inputVars, werr>>
  /\ UNCHANGED nstop

\* teeReader.Read called by a decode attempt: r.r.Read(p) returns, Unlock,
\* and the decode attempt looks at what it got
DecReadEnd(s) ==
  /\ IF s = "l" THEN mpc = "lrd" ELSE wpc = "rrd"
  /\ ReadReady(s)
  /\ IF PipeDone(pipe[s])
     THEN /\ res' = [res EXCEPT ![s] = ReadCloseError(pipe[s])]
          /\ IF s = "l"
             THEN MainAfter(AfterRead(s, got[s], ReadCloseError(pipe[s])))
             ELSE WorkerAfter(AfterRead(s, got[s], ReadCloseError(pipe[s])))
          /\ UNCHANGED <<pipe, got>>
     ELSE \E k \in 1..Min(MaxRead, Len(pipe[s].pend)) :
            /\ got' = [got EXCEPT ![s] = @ \o Take(pipe[s].pend, k)]
            /\ pipe' = [pipe EXCEPT ![s].pend = Drop(@, k)]
            /\ res' = [res EXCEPT ![s] = "data"]
            /\ IF s = "l" THEN MainAfter(AfterRead(s, got'[s], "data"))
                          ELSE WorkerAfter(AfterRead(s, got'[s], "data"))
  /\ mu' = [mu EXCEPT ![s] = "free"]
  /\ UNCHANGED <<closed, stopKind, tpc>>
  /\ UNCHANGED copyVars
  /\ UNCHANGED <<inputVars, werr>>
  /\ UNCHANGED nstop

\* rl.Stop(errL == nil)
MainStopL ==
  /\ mpc = "lstop"
  /\ Stop("l", err.l = Nil)
  /\ mpc' = "wgwait"
  /\ UNCHANGED <<wpc, mpanic, panicVal, err, e, ret>>
  /\ UNCHANGED <<got, res, tpc>>
  /\ UNCHANGED copyVars
  /\ UNCHANGED <<inputVars, werr>>

\* wg.Wait(), the re-raise of panicVal, and the reduction
MainReduce ==
  /\ mpc = "wgwait"
  /\ wpc = "done"
  /\ IF panicVal # NoPanic
     THEN /\ mpanic' = panicVal
          /\ UNCHANGED <<e, ret>>
     ELSE /\ e' = Reduce(err.l, err.r, got.l, got.r, e).e
          /\ ret' = Reduce(err.l, err.r, got.l, got.r, e).ret
          /\ UNCHANGED mpanic
  /\ mpc' = "d1"
  /\ UNCHANGED <<wpc, panicVal, err>>
  /\ UNCHANGED teeVars
  /\ UNCHANGED copyVars
  /\ UNCHANGED <<inputVars, werr>>
  /\ UNCHANGED nstop

\* deferred: rl.Stop(false)
DeferStopL ==
  /\ mpc = "d1"
  /\ Stop("l", FALSE)
  /\ mpc' = "d2"
  /\ UNCHANGED <<wpc, mpanic, panicVal, err, e, ret>>
  /\ UNCHANGED <<got, res, tpc>>
  /\ UNCHANGED copyVars
  /\ UNCHANGED <<inputVars, werr>>

\* deferred: rr.Stop(false)
DeferStopR ==
  /\ mpc = "d2"
  /\ Stop("r", FALSE)
  /\ mpc' = "d3"
  /\ UNCHANGED <<wpc, mpanic, panicVal, err, e, ret>>
  /\ UNCHANGED <<got, res, tpc>>
  /\ UNCHANGED copyVars
  /\ UNCHANGED <<inputVars, werr>>

\* deferred: wait()
DeferWait_nojoin ==
  /\ mpc = "d3"
  /\ mpc' = "d4"
  /\ UNCHANGED <<wpc, mpanic, panicVal, err, e, ret>>
  /\ UNCHANGED teeVars
  /\ UNCHANGED copyVars
  /\ UNCHANGED <<inputVars, werr>>
  /\ UNCHANGED nstop

DeferWait ==
  /\ mpc = "d3"
  /\ CopyJoined
  /\ mpc' = "d4"
  /\ UNCHANGED <<wpc, mpanic, panicVal, err, e, ret>>
  /\ UNCHANGED teeVars
  /\ UNCHANGED copyVars
  /\ UNCHANGED <<inputVars, werr>>
  /\ UNCHANGED nstop

\* wg.Wait() of the worker can return
WorkerJoined_nowait == TRUE

WorkerJoined == wpc = "done"

\* deferred: wg.Wait(); then control leaves the call
DeferWgWait ==
  /\ mpc = "d4"
  /\ WorkerJoined
  /\ mpc' = "done"
  /\ ret' = IF mpanic # NoPanic THEN RetPanic(mpanic) ELSE ret
  /\ UNCHANGED <<wpc, mpanic, panicVal, err, e>>
  /\ UNCHANGED teeVars
  /\ UNCHANGED copyVars
  /\ UNCHANGED <<inputVars, werr>>
  /\ UNCHANGED nstop

\* the worker's deferred function: rr.Stop(false), wg.Done()
WorkerStop ==
  /\ wpc = "wstop"
  /\ Stop("r", FALSE)
  /\ wpc' = "done"
  /\ UNCHANGED <<mpc, mpanic, panicVal, err, e, ret>>
  /\ UNCHANGED <<got, res, tpc>>
  /\ UNCHANGED copyVars
  /\ UNCHANGED <<inputVars, werr>>

Main ==
  \/ StartInvalid
  \/ StartScalar
  \/ StartComposite
  \/ DecRead("l")
  \/ DecReadEnd("l")
  \/ MainStopL
  \/ MainReduce
  \/ DeferStopL
  \/ DeferStopR
  \/ DeferWait
  \/ DeferWgWait

Worker ==
  \/ DecRead("r")
  \/ DecReadEnd("r")
  \/ WorkerStop

Next == Main \/ Worker \/ CopyTask

Spec == Init /\ [][Next]_vars

\* every goroutine that can take a step eventually takes one
FairSpec == Spec /\ WF_vars(Main) /\ WF_vars(Worker) /\ WF_vars(CopyTask)

\* ------------------------------------------------------------------ claims
Composite == IsOpenTok(doc[1])

Readable == IsOpenTok(doc[1]) \/ IsScalarTok(doc[1])

LeftOf(toks) == [isRight |-> FALSE, l |-> DecodeAs("l", toks), r |-> Zero]

RightOf(toks) == [isRight |-> TRUE, l |-> Zero, r |-> DecodeAs("r", toks)]

\* C1: under fair scheduling every call of the TeeDecoder-based
\* UnmarshalJSONFrom eventually leaves the call (returns or panics), whatever
\* the two decode attempts and the source do and however the copy task, the
\* L side and the R-side worker interleave.
C1_AlwaysCompletes == <>(mpc = "done")

C1_Witness ==
  /\ Composite
  /\ mpc = "done"
  /\ plan.l.kind = "panic"
  /\ plan.r.kind = "accept"
  /\ ret = RetPanic(PvL)

\* C2: when control leaves a call on the composite path, the copy task and
\* the R-side worker have finished and both views are closed; no lock of a
\* view is held and no write is in flight.
C2_JoinedOnExit ==
  (mpc = "done" /\ Composite /\ cpc # "idle") =>
     /\ cpc = "done"
     /\ wpc = "done"
     /\ \A v \in Views : closed[v] /\ mu[v] = "free" /\ pipe[v].pend = <<>>

C2_Witness ==
  /\ mpc = "done"
  /\ cpc = "done"
  /\ wpc = "done"
  /\ ret.kind = "panic"
  /\ fault.kind = "panic"
  /\ closed.l /\ closed.r

\* C3: on every exit path of a call on a well-formed composite value (the
\* result is Left, Right or both-failed), once the copy task has been joined
\* the source has consumed exactly the tokens of the value present on entry.
C3_SourceConsumedExactly ==
  (/\ mpc \in {"d4", "done"}
   /\ cpc = "done"
   /\ Composite
   /\ fault.kind = "none"
   /\ ret.kind \in {"nil", "either"})
     => decPos = ValueLen(doc)

\* C4: whenever the L attempt accepts the value (and the value can be read),
\* the call returns nil and the receiver is Left with L's decoded value,
\* whether R accepts or rejects, on the scalar and on the composite path.
C4_LeftWins ==
  (/\ mpc = "done"
   /\ Readable
   /\ fault.kind = "none"
   /\ plan.l.kind = "accept"
   /\ plan.r.kind # "panic")
     => ret = RetNil /\ e = LeftOf(ValueOf(doc))

C4_Witness ==
  /\ mpc = "done"
  /\ Composite
  /\ plan.l.kind = "accept"
  /\ plan.r.kind = "accept"
  /\ err.r = Nil
  /\ got.r = ValueOf(doc)
  /\ e0.isRight
  /\ e = LeftOf(ValueOf(doc))

\* C5: if the L attempt rejects the value at any token and the R attempt
\* accepts the complete value, the call returns nil and the receiver is
\* Right with R's decoded value, in every interleaving.
C5_RightAfterLeftFails ==
  (/\ mpc = "done"
   /\ Readable
   /\ fault.kind = "none"
   /\ plan.l.kind = "fail"
   /\ plan.r.kind = "accept")
     => ret = RetNil /\ e = RightOf(ValueOf(doc))

C5_Witness ==
  /\ mpc = "done"
  /\ Composite
  /\ plan.l.kind = "fail"
  /\ plan.l.at = 1
  /\ stopKind.l = "stopF"
  /\ Len(got.l) < ValueLen(doc)
  /\ e = RightOf(ValueOf(doc))

\* C6: when the call returns an error the receiver is exactly as it was
\* before the call.
C6_ErrorLeavesReceiver ==
  (mpc = "done" /\ ret.kind \in {"err", "either"}) => e = e0

C6_Witness ==
  /\ mpc = "done"
  /\ Composite
  /\ ret.kind = "either"
  /\ e0.isRight
  /\ Len(got.l) > 0
  /\ Len(got.r) > 0
  /\ e = e0

\* C7: after a successful call the receiver holds exactly one candidate, the
\* other one is the zero value, also when the receiver held the other
\* variant before.
C7_ExactlyOne ==
  (mpc = "done" /\ ret = RetNil) =>
     /\ e.isRight => (e.l = Zero /\ e.r # Zero)
     /\ ~e.isRight => (e.r = Zero /\ e.l # Zero)

C7_Witness ==
  /\ mpc = "done"
  /\ Composite
  /\ ret = RetNil
  /\ ~e.isRight
  /\ e0.isRight
  /\ e0.r # Zero
  /\ e.r = Zero

\* C8: when both decode attempts fail, the call returns the combined error
\* that carries L's error first and R's error second, never one of them
\* alone and never a plain error.
C8_BothErrors ==
  /\ (mpc = "done" /\ err.l # Nil /\ err.r # Nil)
        => ret = [kind |-> "either", a |-> err.l, b |-> err.r]
  /\ (/\ mpc = "done"
      /\ Readable
      /\ fault.kind = "none"
      /\ plan.l.kind = "fail"
      /\ plan.r.kind = "fail")
        => ret = [kind |-> "either", a |-> Mismatch("l"), b |-> Mismatch("r")]

C8_Witness ==
  /\ mpc = "done"
  /\ Composite
  /\ ret = [kind |-> "either", a |-> Mismatch("l"), b |-> SrcErr]

\* the copy task has not given up view o: its writer is still there, or it
\* was closed with a clean end of stream after the whole value
StillServed(o) ==
  /\ pipe[o].werr \in {Nil, EOF}
  /\ mw[o] \/ (pipe[o].werr = EOF /\ got[o] = ValueOf(doc))

C10_ViewsArePrefixes ==
  \A v \in Views : IsPrefix(got[v], Consumed)

C10_Witness ==
  /\ Len(got.r) >= 1
  /\ Len(got.l) > Len(got.r) + 1
  /\ stopKind.l = "open"
  /\ stopKind.r = "open"

\* the L attempt ended in a panic on the calling goroutine: its own, or the
\* source's panic handed over by a Read of rl
LeftPanicked ==
  \/ plan.l.kind = "panic" /\ PlanFires("l", got.l)
  \/ IsPanicErr(res.l)

\* C11: once the L attempt has panicked on the composite path, nothing is
\* returned and the receiver stays as it was; the caller sees the panic with
\* L's value, and only after both views are closed and the R-side worker and
\* the copy task have finished, whatever R's own outcome is.
C11_LeftPanicWins ==
  (cpc # "idle" /\ plan.l.kind = "panic" /\ PlanFires("l", got.l)) =>
     /\ mpanic = PvL
     /\ e = e0
     /\ ret \in {Running, RetPanic(PvL)}
     /\ mpc = "done" =>
          /\ ret = RetPanic(PvL)
          /\ cpc = "done"
          /\ wpc = "done"
          /\ closed.l /\ closed.r

C11_Witness ==
  /\ mpc = "done"
  /\ Composite
  /\ plan.l = [kind |-> "panic", at |-> 0]
  /\ plan.r.kind = "accept"
  /\ err.r = Nil
  /\ got.r = ValueOf(doc)
  /\ res.r = EOF
  /\ e0.isRight
  /\ e = e0
  /\ ret = RetPanic(PvL)

\* C12: once the R attempt has panicked in the worker, the panic value is
\* kept in panicVal, the worker still closes its view and finishes, and
\* unless L itself panicked the call ends, after the worker has been awaited,
\* by re-raising that value, also when L has accepted the value; nothing is
\* returned and the receiver stays as it was.
C12_RightPanicReraised ==
  (cpc # "idle" /\ plan.r.kind = "panic" /\ PlanFires("r", got.r)) =>
     /\ panicVal = PvR
     /\ e = e0
     /\ ret.kind \in {"running", "panic"}
     /\ wpc = "done" => closed.r
     /\ mpc = "done" =>
          /\ wpc = "done"
          /\ ~LeftPanicked => ret = RetPanic(PvR)

C12_Witness ==
  /\ mpc = "done"
  /\ Composite
  /\ plan.l.kind = "accept"
  /\ err.l = Nil
  /\ got.l = ValueOf(doc)
  /\ stopKind.l = "stopT"
  /\ plan.r.kind = "panic"
  /\ plan.r.at >= 1
  /\ e0.isRight
  /\ e = e0
  /\ ret = RetPanic(PvR)

\* C13: when the source has panicked under the copy task (and neither
\* decode attempt panics by itself), the call ends by re-raising the source's
\* panic value; it never returns a value or an ordinary error.
C13_SourcePanicReraised ==
  (/\ mpc = "done"
   /\ cerr = PanicErrOf(PvSrc)
   /\ plan.l.kind # "panic"
   /\ plan.r.kind # "panic")
     => ret = RetPanic(PvSrc) /\ e = e0

\* C14: a source that fails with a read error before the composite value is
\* complete never lets the call succeed: the result is never nil, the
\* receiver stays as it was, and unless a decode attempt panics the call
\* returns an error.
C14_SourceErrorNeverSucceeds ==
  (mpc = "done" /\ Composite /\ fault.kind = "err") =>
     /\ ret # RetNil
     /\ e = e0
     /\ (plan.l.kind # "panic" /\ plan.r.kind # "panic")
           => ret.kind \in {"err", "either"}

C14_Witness ==
  /\ mpc = "done"
  /\ Composite
  /\ cerr = SrcErr
  /\ plan.l.kind = "accept"
  /\ plan.r.kind = "accept"
  /\ Len(got.l) >= 1
  /\ Len(got.r) >= 1
  /\ e0.isRight
  /\ e = e0
  /\ ret = EitherErr(SrcErr, SrcErr)

\* the input of a call on a composite value whose source fails with a read
\* error inside the value, decoded by two attempts that do not panic
Truncated ==
  /\ Composite
  /\ fault.kind = "err"
  /\ fault.at >= 1
  /\ plan.l.kind # "panic"
  /\ plan.r.kind # "panic"

\* a candidate that rejects no token in front of the source fault
AcceptsUpToFault(s) == plan[s].kind = "accept" \/ plan[s].at > fault.at

\* C15 as stated: for a composite value cut short by a source fault the
\* call returns the combined error in which L's cause and R's cause are both
\* that source fault, for every pair of candidates.
C15_BothCausesSourceFault ==
  (mpc = "done" /\ Truncated) => ret = EitherErr(SrcErr, SrcErr)

\* C15 amended: for a composite value cut short by a source fault the call
\* returns the combined error; each cause is the source fault or that
\* candidate's own shape mismatch on an earlier token, and it is the source
\* fault for every candidate that rejects no token in front of the fault.
C15_CausesFaultOrMismatch ==
  (mpc = "done" /\ Truncated) =>
     /\ ret.kind = "either"
     /\ ret.a \in {SrcErr, Mismatch("l")}
     /\ ret.b \in {SrcErr, Mismatch("r")}
     /\ AcceptsUpToFault("l") => ret.a = SrcErr
     /\ AcceptsUpToFault("r") => ret.b = SrcErr

C15_Witness ==
  /\ mpc = "done"
  /\ Truncated
  /\ fault.at >= 2
  /\ plan.l.kind = "accept"
  /\ plan.r = [kind |-> "fail", at |-> 1]
  /\ ret = EitherErr(SrcErr, Mismatch("r"))

\* C16: when the copy task has ended because the source failed with the
\* read error E, every view its consumer has not stopped or closed is closed
\* with E and nothing else: after the tokens already forwarded each Read of
\* it gives E, never a clean end of stream and never another error.
C16_SourceErrorReachesOpenViews ==
  (cpc = "done" /\ cerr = SrcErr) =>
     \A v \in Views :
       stopKind[v] = "open" =>
          /\ pipe[v] = [pend |-> <<>>, rerr |-> Nil, werr |-> SrcErr]
          /\ ReadCloseError(pipe[v]) = SrcErr
          /\ res[v] \in {"none", "data", SrcErr}
          /\ IsPrefix(got[v], SubSeq(doc, 1, fault.at))

C16_Witness ==
  /\ cpc = "done"
  /\ cerr = SrcErr
  /\ stopKind.l = "open"
  /\ stopKind.r = "open"
  /\ Len(got.l) >= 1
  /\ Len(got.r) >= 1
  /\ res.l = SrcErr
  /\ res.r = SrcErr

\* a call of Stop on view v returns in this step
StopReturns(v) == nstop'[v] = nstop[v] + 1

\* C17: once a call of Stop has returned on a view (teeReader or
\* bufReader), the view is closed and its mutex is free, so a later Stop or
\* Close of that view never waits; and a further call of Stop, with either
\* flag and in any order with Close, changes nothing: the view stays closed
\* and the pipe keeps the closing cause it had.
C17_StopIdempotent ==
  [][\A v \in Views :
       /\ nstop[v] >= 1 => (closed[v] /\ mu[v] = "free")
       /\ nstop'[v] >= 1 => (closed'[v] /\ mu'[v] = "free")
       /\ (nstop[v] >= 1 /\ StopReturns(v)) =>
            /\ pipe' = pipe
            /\ closed' = closed
            /\ stopKind' = stopKind
            /\ mu' = mu
            /\ got' = got
            /\ res' = res
            /\ copyVars' = copyVars]_vars

C17_Witness ==
  /\ Composite
  /\ nstop.l = 2
  /\ stopKind.l = "stopT"
  /\ pipe.l.rerr = ErrStopped
  /\ nstop.r = 2
  /\ stopKind.r = "close"
  /\ pipe.r.rerr = ErrClosedPipe
  /\ closed.l /\ closed.r

\* the copy task has found view v stopped: the write to its branch failed
\* and the branch is dropped
StopNoticed(v, kinds) == Composite /\ stopKind[v] \in kinds /\ ~mw[v]

\* view o can receive no further token: nothing is pending in its pipe and
\* the pipe is closed at one end
CutOff(o) == pipe[o].pend = <<>> /\ PipeDone(pipe[o])

C19_NoSentinelSurfaced ==
  mpc = "done" =>
     /\ ret.kind = "either" =>
          /\ ret.a \in {Mismatch("l"), SrcErr}
          /\ ret.b \in {Mismatch("r"), SrcErr}
     /\ ret.kind = "err" => ret.a = SrcErr

C19_Witness ==
  /\ mpc = "done"
  /\ Composite
  /\ stopKind.l = "stopF"
  /\ pipe.l.rerr = ErrFailedEarly
  /\ pipe.r.rerr = ErrFailedEarly
  /\ cerr = ErrClosedPipe
  /\ Len(got.r) > Len(got.l)
  /\ ret = EitherErr(Mismatch("l"), Mismatch("r"))

\* view v is served: its consumer has neither stopped nor closed it and the
\* copy task still holds its writer
Served(v) == Composite /\ stopKind[v] = "open" /\ mw[v]

\* C20: the copy task is never more than one encoder buffer ahead of a
\* view that is still served, and it reads the next source token only when
\* every served view has taken all of the chunk handed to it.
C20_Backpressure ==
  \A v \in Views :
    Served(v) =>
       /\ decPos - Len(got[v]) <= MaxBuf
       /\ decPos - Len(got[v]) <= Len(buf)
       /\ cpc = "read" => (pipe[v].pend = <<>> /\ got[v] \o buf = Consumed)

C20_Witness ==
  /\ Served("l")
  /\ Served("r")
  /\ cpc = "wrw"
  /\ got.l = Consumed
  /\ Len(pipe.r.pend) >= 2
  /\ decPos - Len(got.r) >= 2
  /\ decPos < ValueLen(doc)

\* C21: the source is read by one task at a time: while the copy task is
\* running the calling goroutine is inside the call, past the kind peek and
\* short of its return, and every step that advances the source is either the
\* calling goroutine's read before the copy task exists or a read of the
\* copy task.
C21_SingleSourceReader ==
  [][/\ cpc \notin {"idle", "done"} => mpc \notin {"start", "done"}
     /\ cpc' \notin {"idle", "done"} => mpc' \notin {"start", "done"}
     /\ decPos' # decPos =>
          IF cpc = "idle" THEN mpc = "start" ELSE cpc = "read"]_vars

C21_Witness ==
  /\ Composite
  /\ cpc = "read"
  /\ decPos >= 1
  /\ decPos < ValueLen(doc)
  /\ mpc = "lrd"
  /\ wpc = "rrd"

\* both views have been stopped by their consumers
BothStopped ==
  Composite /\ \A v \in Views : stopKind[v] \in {"stopT", "stopF"}

\* the copy task runs whenever it can take a step
FairSpecTee == SpecTee /\ WF_vars(CopyTask)

\* C25: once both views have been stopped the copy task has read at most
\* one encoder buffer of tokens beyond what a view has taken, and it goes on
\* to its end, so that wait returns.
C25_CopyEndsAfterBothStopped ==
  /\ [](BothStopped => \E v \in Views : decPos - Len(got[v]) <= MaxBuf)
  /\ (BothStopped ~> cpc = "done")

C25_Witness ==
  /\ BothStopped
  /\ cpc = "done"
  /\ cerr = ErrClosedPipe
  /\ decPos < ValueLen(doc)
  /\ decPos > Len(got.l)
  /\ decPos > Len(got.r)

\* C27: when both decode attempts panic, the value re-raised to the caller
\* is that of the panic that happened first: once R's panic is stored while L
\* is still decoding, the call can only end by re-raising R's value.
C27_FirstPanicWins ==
  []((panicVal = PvR /\ mpanic = NoPanic /\ mpc \in {"ldec", "lrd"})
       => [](mpc = "done" => ret = RetPanic(PvR)))

\* -------------------------------------------------------------- ReadJSONAt
MaxIndex == 3
MaxPtrLen == 3

ErrNotFound == "not found"
ErrSyntax == "syntactic error"
ErrType == "type mismatch"

\* the variables of the Either programs while another program runs
EitherOff ==
  /\ doc = <<"n">>
  /\ fault = NoFault
  /\ plan = NoPlan
  /\ e0 = ZeroEither
  /\ decPos = 0
  /\ cpc = "off"
  /\ buf = <<>>
  /\ wn = 0
  /\ mw = [l |-> TRUE, r |-> TRUE]
  /\ cerr = Nil
  /\ pipe = [v \in Views |-> NewPipe]
  /\ closed = [v \in Views |-> FALSE]
  /\ mu = [v \in Views |-> "free"]
  /\ got = [v \in Views |-> <<>>]
  /\ stopKind = [v \in Views |-> "open"]
  /\ res = [v \in Views |-> "none"]
  /\ tpc = [v \in Views |-> "off"]
  /\ mpc = "off"
  /\ wpc = "off"
  /\ mpanic = NoPanic
  /\ panicVal = NoPanic
  /\ err = [v \in Views |-> Nil]
  /\ e = ZeroEither
  /\ ret = Running
  /\ nstop = [v \in Views |-> 0]
  /\ spaced = FALSE
  /\ werr = [v \in Views |-> Nil]

\* one JSON token: its kind ('{', '}', '[', ']' or '"') and, for a string,
\* its text; whether a string is a member name follows from its position
Tok(k, s) == [k |-> k, s |-> s]

\* decimal text of an array index (strconv.AppendUint) and back
\* (strconv.ParseInt)
FormatUint(n) == <<"0", "1", "2", "3", "4", "5", "6", "7", "8", "9">>[n + 1]
IsDigits(t) == \E n \in 0..9 : FormatUint(n) = t
ParseInt(t) == CHOOSE n \in 0..9 : FormatUint(n) = t

\* jsontext.Decoder over toks: d = [pos, stack], one frame [k, len, name]
\* for each open object or array
ReadToken(toks, d) ==
  LET t == toks[d.pos + 1]
      top == Len(d.stack)
      counted ==
        IF top = 0 THEN d.stack
        ELSE LET f == d.stack[top]
             IN [d.stack EXCEPT ![top] =
                   [k |-> f.k, len |-> f.len + 1,
                    name |-> IF f.k = "{" /\ f.len % 2 = 0 THEN t.s
                             ELSE f.name]]
  IN [pos |-> d.pos + 1,
      stack |-> CASE t.k \in {"{", "["} ->
                       Append(counted, [k |-> t.k, len |-> 0, name |-> ""])
                  [] t.k \in {"}", "]"} -> SubSeq(d.stack, 1, top - 1)
                  [] OTHER -> counted]

PeekKind(toks, d) == IF d.pos = Len(toks) THEN "eof" ELSE toks[d.pos + 1].k

\* the decoder that has read i tokens of toks
RECURSIVE DecoderAfter(_, _)
DecoderAfter(toks, i) ==
  IF i = 0 THEN [pos |-> 0, stack |-> <<>>]
  ELSE ReadToken(toks, DecoderAfter(toks, i - 1))

\* Decoder.SkipValue: a whole object or array (through the token that
\* closes it), one scalar, or an error when the next token closes the
\* enclosing container
SkipValue(toks, d) ==
  CASE PeekKind(toks, d) \in {"{", "["} ->
         LET inside(i) == Len(DecoderAfter(toks, i).stack) > Len(d.stack)
             end == CHOOSE j \in (d.pos + 1)..Len(toks) :
                      /\ ~inside(j)
                      /\ \A i \in (d.pos + 1)..(j - 1) : inside(i)
         IN [d |-> DecoderAfter(toks, end), err |-> Nil]
    [] PeekKind(toks, d) \in {"}", "]"} -> [d |-> d, err |-> ErrSyntax]
    [] PeekKind(toks, d) = "eof" -> [d |-> d, err |-> EOF]
    [] OTHER -> [d |-> ReadToken(toks, d), err |-> Nil]

\* Decoder.StackPointer: the pointer to the most recently read token; a
\* container that has just been opened is pointed to itself
StackPointer(d) ==
  LET top == Len(d.stack)
      n == IF top > 0 /\ d.stack[top].len = 0 THEN top - 1 ELSE top
  IN [i \in 1..n |-> IF d.stack[i].k = "{" THEN d.stack[i].name
                     ELSE FormatUint(d.stack[i].len - 1)]

\* commonSegment: the number of leading tokens the two pointers share, and
\* one more than all of target's when pointer.Contains(target)
commonSegment(target, pointer) ==
  IF IsPrefix(pointer, target) THEN Len(target) + 1
  ELSE Cardinality({k \in 1..Len(target) :
         k <= Len(pointer) /\ SubSeq(target, 1, k) = SubSeq(pointer, 1, k)})

\* the pointers of the values of a document
Addressed(toks) == {StackPointer(DecoderAfter(toks, i)) : i \in 0..Len(toks)}

\* a call of ReadJSONAt on {"foo":{"bar":"s"},"nay":["a","b"]} or on
\* {"nay":[[["a","b"]]]}, with a jsontext.Pointer given as its sequence of
\* reference tokens
InitAt ==
  LET bufs ==
        { << Tok("{", ""), Tok("\"", "foo"), Tok("{", ""), Tok("\"", "bar"),
             Tok("\"", "s"), Tok("}", ""), Tok("\"", "nay"), Tok("[", ""),
             Tok("\"", "a"), Tok("\"", "b"), Tok("]", ""), Tok("}", "") >>,
          << Tok("{", ""), Tok("\"", "nay"), Tok("[", ""), Tok("[", ""),
             Tok("[", ""), Tok("\"", "a"), Tok("\"", "b"), Tok("]", ""),
             Tok("]", ""), Tok("]", ""), Tok("}", "") >> }
      tokens == {"foo", "bar", "nay", "qux"}
                  \cup {FormatUint(n) : n \in 0..MaxIndex}
      pointers == UNION {[1..n -> tokens] : n \in 1..MaxPtrLen}
  IN /\ rj \in [pc : {"start"}, doc : bufs, ptr : pointers,
                pointer : {<<>>}, idx : {-1}, d : {DecoderAfter(<<>>, 0)},
                currentDepth : {0}, err : {Nil}, called : {FALSE}]
     /\ ou = NoCall
     /\ EitherOff

\* ReadJSONAt: an all-digit last token is taken as an array index
AtParse ==
  /\ rj.pc = "start"
  /\ LET last == rj.ptr[Len(rj.ptr)]
     IN rj' = IF IsDigits(last)
              THEN [rj EXCEPT !.pc = "loop", !.idx = ParseInt(last),
                              !.pointer = SubSeq(rj.ptr, 1, Len(rj.ptr) - 1)]
              ELSE [rj EXCEPT !.pc = "loop", !.pointer = rj.ptr]
  /\ UNCHANGED <<doc, fault, plan, e0, spaced, ou, werr, nstop>>
  /\ UNCHANGED <<copyVars, teeVars, eitherVars>>

\* ReadJSONAt: one turn of the search loop
AtLoop ==
  /\ rj.pc = "loop"
  /\ IF PeekKind(rj.doc, rj.d) = "eof"
     THEN rj' = [rj EXCEPT !.pc = "done", !.err = ErrNotFound]
     ELSE LET d1 == ReadToken(rj.doc, rj.d)
              p == StackPointer(d1)
              nextDepth == commonSegment(p, rj.pointer)
          IN CASE rj.pointer = p ->
                    rj' = [rj EXCEPT !.d = d1,
                             !.pc = IF rj.idx >= 0 THEN "index" ELSE "read"]
               [] rj.pointer # p /\ nextDepth < rj.currentDepth ->
                    rj' = [rj EXCEPT !.d = d1, !.pc = "done",
                                    !.err = ErrNotFound]
               [] OTHER ->
                    rj' = [rj EXCEPT !.d = d1, !.currentDepth = nextDepth]
  /\ UNCHANGED <<doc, fault, plan, e0, spaced, ou, werr, nstop>>
  /\ UNCHANGED <<copyVars, teeVars, eitherVars>>

\* ReadJSONAt: the pointer's parent is found, step into the array
AtIndex ==
  /\ rj.pc = "index"
  /\ IF PeekKind(rj.doc, rj.d) # "["
     THEN rj' = [rj EXCEPT !.pc = "done", !.err = ErrNotFound]
     ELSE rj' = [rj EXCEPT !.d = ReadToken(rj.doc, rj.d), !.pc = "skip"]
  /\ UNCHANGED <<doc, fault, plan, e0, spaced, ou, werr, nstop>>
  /\ UNCHANGED <<copyVars, teeVars, eitherVars>>

\* ReadJSONAt: skip one element before the indexed one
AtSkip ==
  /\ rj.pc = "skip"
  /\ rj.idx > 0
  /\ LET s == SkipValue(rj.doc, rj.d)
     IN IF s.err # Nil
        THEN rj' = [rj EXCEPT !.d = s.d, !.pc = "done", !.err = s.err]
        ELSE rj' = [rj EXCEPT !.d = s.d, !.idx = @ - 1]
  /\ UNCHANGED <<doc, fault, plan, e0, spaced, ou, werr, nstop>>
  /\ UNCHANGED <<copyVars, teeVars, eitherVars>>

\* ReadJSONAt: the end-of-array check and the read callback
AtRead ==
  /\ rj.pc = "read" \/ (rj.pc = "skip" /\ rj.idx = 0)
  /\ IF PeekKind(rj.doc, rj.d) = "]"
     THEN rj' = [rj EXCEPT !.pc = "done", !.err = ErrNotFound]
     ELSE \E er \in {Nil, ErrType} :
            rj' = [rj EXCEPT !.d = SkipValue(rj.doc, rj.d).d, !.pc = "done",
                            !.err = er, !.called = TRUE]
  /\ UNCHANGED <<doc, fault, plan, e0, spaced, ou, werr, nstop>>
  /\ UNCHANGED <<copyVars, teeVars, eitherVars>>

SpecAt == InitAt /\ [][AtParse \/ AtLoop \/ AtIndex \/ AtSkip \/ AtRead]_vars

\* C22: in a well-formed document, for a pointer that addresses no value
\* (absent member, descent through a scalar, index at or past the end of the
\* array) ReadJSONAt returns ErrNotFound and never invokes the read callback.
C22_AbsentIsNotFound ==
  (rj.pc = "done" /\ rj.ptr \notin Addressed(rj.doc))
    => (rj.err = ErrNotFound /\ ~rj.called)

\* ---------------------------------------------------------- Option and Und
MaxPayload == 2

\* the payloads of a field of type typ, and the type's zero value
PayloadsOf(typ) ==
  CASE typ = "string" -> {"", "foo"}
    [] typ = "int" -> 0..MaxPayload
    [] OTHER -> BOOLEAN
ZeroOf(typ) ==
  CASE typ = "string" -> ""
    [] typ = "int" -> 0
    [] OTHER -> FALSE

\* Option[V]: [some, v]
None(typ) == [some |-> FALSE, v |-> ZeroOf(typ)]
Some(v) == [some |-> TRUE, v |-> v]
OptionIsZero(o) == ~o.some

\* Und[V]: [opt] with opt an Option[Option[V]]
Undefined(typ) == [opt |-> [some |-> FALSE, v |-> None(typ)]]
Null(typ) == [opt |-> Some(None(typ))]
Defined(v) == [opt |-> Some(Some(v))]
UndIsZero_notDefined(u) == ~(u.opt.some /\ u.opt.v.some)
UndIsZero(u) == ~u.opt.some

\* json.MarshalEncode of a payload: one token with the payload's JSON text
MarshalEncode(v, typ) ==
  CASE typ = "string" -> Tok("\"", v)
    [] typ = "int" -> Tok("0", FormatUint(v))
    [] OTHER -> Tok(IF v THEN "t" ELSE "f", "")

\* one value token the decoder accepts; of the others "nul", a cut-off null
\* literal, still has PeekKind 'n', and "!" is a byte that starts no value
WellFormed(tok) == tok.k \in {"n", "t", "f", "\"", "0"}

\* json.UnmarshalDecode of one value token into a fresh payload
UnmarshalDecode(tok, typ) ==
  CASE ~WellFormed(tok) -> [v |-> ZeroOf(typ), err |-> ErrSyntax]
    [] WellFormed(tok) /\ tok.k = "n" -> [v |-> ZeroOf(typ), err |-> Nil]
    [] typ = "string" /\ tok.k = "\"" -> [v |-> tok.s, err |-> Nil]
    [] typ = "int" /\ tok.k = "0" /\ IsDigits(tok.s) ->
         [v |-> ParseInt(tok.s), err |-> Nil]
    [] typ = "bool" /\ tok.k \in {"t", "f"} -> [v |-> tok.k = "t", err |-> Nil]
    [] OTHER -> [v |-> ZeroOf(typ), err |-> ErrType]

OptionMarshalJSONTo(o, typ) ==
  IF ~o.some THEN Tok("n", "") ELSE MarshalEncode(o.v, typ)

\* Option.UnmarshalJSONFrom: [o, err], the receiver afterwards and the result;
\* behind PeekKind 'n' the value is skipped, which fails on a cut-off literal
OptionUnmarshalJSONFrom_inPlace(o, tok, typ) ==
  IF tok.k \in {"n", "nul"}
  THEN [o |-> None(typ), err |-> IF WellFormed(tok) THEN Nil ELSE ErrSyntax]
  ELSE LET u == UnmarshalDecode(tok, typ)
       IN [o |-> Some(u.v), err |-> u.err]

OptionUnmarshalJSONFrom(o, tok, typ) ==
  IF tok.k \in {"n", "nul"}
  THEN IF ~WellFormed(tok) THEN [o |-> o, err |-> ErrSyntax]
       ELSE [o |-> None(typ), err |-> Nil]
  ELSE LET u == UnmarshalDecode(tok, typ)
       IN IF u.err # Nil THEN [o |-> o, err |-> u.err]
          ELSE [o |-> Some(u.v), err |-> Nil]

UndMarshalJSONTo(u, typ) ==
  IF ~(u.opt.some /\ u.opt.v.some) THEN Tok("n", "")
  ELSE MarshalEncode(u.opt.v.v, typ)

\* Und.UnmarshalJSONFrom: [o, err]
UndUnmarshalJSONFrom(u, tok, typ) ==
  IF tok.k \in {"n", "nul"}
  THEN IF ~WellFormed(tok) THEN [o |-> u, err |-> ErrSyntax]
       ELSE [o |-> Null(typ), err |-> Nil]
  ELSE LET d == UnmarshalDecode(tok, typ)
       IN IF d.err # Nil THEN [o |-> u, err |-> d.err]
          ELSE [o |-> Defined(d.v), err |-> Nil]

\* the struct of TestArshalerToFrom: Foo Option[string], Bar Option[int] with
\* omitzero, Baz Und[bool] with omitzero
ZeroSample ==
  [Foo |-> None("string"), Bar |-> None("int"), Baz |-> Undefined("bool")]
TypeOf(f) ==
  CASE f = "Foo" -> "string"
    [] f = "Bar" -> "int"
    [] OTHER -> "bool"

\* json.Marshal of a sample followed by json.Unmarshal into a zero sample,
\* or one direct call of UnmarshalJSONFrom on a receiver o0 with one value
\* token
InitOpt ==
  LET tokens == {Tok("n", ""), Tok("nul", ""), Tok("!", ""), Tok("\"", "foo"),
                 Tok("0", FormatUint(1)), Tok("t", "")}
      options(typ) == {None(typ)} \cup {Some(v) : v \in PayloadsOf(typ)}
      unds(typ) ==
        {Undefined(typ), Null(typ)} \cup {Defined(v) : v \in PayloadsOf(typ)}
      call(pc, x, f, o0, tok) ==
        [pc |-> pc, x |-> x, bin |-> <<>>, recv |-> ZeroSample, pos |-> 1,
         err |-> Nil, f |-> f, o0 |-> o0, o |-> o0, tok |-> tok]
  IN /\ \/ ou \in {call("marshal", x, "Foo", None("string"), Tok("n", "")) :
                     x \in [Foo : options("string"), Bar : options("int"),
                            Baz : unds("bool")]}
        \/ ou \in {call("option", ZeroSample, "Foo", o0, tok) :
                     o0 \in options("string"), tok \in tokens}
        \/ ou \in {call("option", ZeroSample, "Bar", o0, tok) :
                     o0 \in options("int"), tok \in tokens}
        \/ ou \in {call("und", ZeroSample, "Baz", o0, tok) :
                     o0 \in unds("bool"), tok \in tokens}
     /\ rj = NoCall
     /\ EitherOff

\* json.Marshal of the sample: the members in field order, a member with
\* omitzero left out when its IsZero reports true
Marshal ==
  /\ ou.pc = "marshal"
  /\ LET x == ou.x
         foo == <<Tok("\"", "Foo"), OptionMarshalJSONTo(x.Foo, TypeOf("Foo"))>>
         bar == IF OptionIsZero(x.Bar) THEN <<>>
                ELSE <<Tok("\"", "Bar"),
                       OptionMarshalJSONTo(x.Bar, TypeOf("Bar"))>>
         baz == IF UndIsZero(x.Baz) THEN <<>>
                ELSE <<Tok("\"", "Baz"),
                       UndMarshalJSONTo(x.Baz, TypeOf("Baz"))>>
     IN ou' = [ou EXCEPT !.pc = "unmarshal",
                 !.bin = <<Tok("{", "")>> \o foo \o bar \o baz
                           \o <<Tok("}", "")>>]
  /\ UNCHANGED <<doc, fault, plan, e0, spaced, rj, werr, nstop>>
  /\ UNCHANGED <<copyVars, teeVars, eitherVars>>

\* json.Unmarshal: one member, through the field's UnmarshalJSONFrom, or the
\* end of the object
Unmarshal ==
  /\ ou.pc = "unmarshal"
  /\ IF ou.bin[ou.pos + 1].k = "}"
     THEN ou' = [ou EXCEPT !.pos = @ + 1, !.pc = "unmarshaled"]
     ELSE LET f == ou.bin[ou.pos + 1].s
              tok == ou.bin[ou.pos + 2]
              r == IF f = "Baz"
                   THEN UndUnmarshalJSONFrom(ou.recv[f], tok, TypeOf(f))
                   ELSE OptionUnmarshalJSONFrom(ou.recv[f], tok, TypeOf(f))
          IN ou' = [ou EXCEPT !.pos = @ + 2, !.recv = [@ EXCEPT ![f] = r.o],
                      !.err = r.err,
                      !.pc = IF r.err # Nil THEN "unmarshaled" ELSE @]
  /\ UNCHANGED <<doc, fault, plan, e0, spaced, rj, werr, nstop>>
  /\ UNCHANGED <<copyVars, teeVars, eitherVars>>

\* a direct call of Option.UnmarshalJSONFrom or of Und.UnmarshalJSONFrom
DirectCall ==
  /\ ou.pc \in {"option", "und"}
  /\ LET r == IF ou.pc = "und"
              THEN UndUnmarshalJSONFrom(ou.o0, ou.tok, TypeOf(ou.f))
              ELSE OptionUnmarshalJSONFrom(ou.o0, ou.tok, TypeOf(ou.f))
     IN ou' = [ou EXCEPT !.pc = "returned", !.o = r.o, !.err = r.err]
  /\ UNCHANGED <<doc, fault, plan, e0, spaced, rj, werr, nstop>>
  /\ UNCHANGED <<copyVars, teeVars, eitherVars>>

SpecOpt == InitOpt /\ [][Marshal \/ Unmarshal \/ DirectCall]_vars

\* C23: Unmarshal(Marshal(x)) = x for every sample x built from None, Some,
\* Undefined, Null and Defined: Unmarshal returns no error and the zero
\* sample it fills equals x.
C23_RoundTrip ==
  ou.pc = "unmarshaled" => (ou.err = Nil /\ ou.recv = ou.x)

C23_Witness ==
  /\ ou.pc = "unmarshaled"
  /\ ou.x.Foo = Some("foo")
  /\ ou.x.Bar = None("int")
  /\ ou.x.Baz = Null("bool")
  /\ Len(ou.bin) = 6

\* C24: a direct call of Option.UnmarshalJSONFrom or Und.UnmarshalJSONFrom
\* that returns an error leaves the receiver as it was before the call.
C24_ErrorKeepsReceiver ==
  (ou.pc = "returned" /\ ou.err # Nil) => ou.o = ou.o0

C24_Witness ==
  /\ ou.pc = "returned"
  /\ ou.f = "Foo"
  /\ ou.err # Nil
  /\ ou.o0 = Some("foo")
  /\ ou.tok.k = "t"

\* ------------------------------------- Either.UnmarshalJSONFrom, io.Pipe
\* the source text of a value: its tokens, with whitespace between them
\* when the input has any; dec.ReadValue returns it as it stands, while
\* dec.ReadToken and Encoder.WriteToken pass the tokens only
RawValue(toks) ==
  IF spaced
  THEN [i \in 1..(2 * Len(toks) - 1) |->
          IF i % 2 = 1 THEN toks[(i + 1) \div 2] ELSE " "]
  ELSE toks

\* the state at the call of any of the three variants, at position pc
InitCall(pc) ==
  /\ doc \in Docs
  /\ fault \in Faults(doc, 0)
  /\ plan \in [l : Plans(ValueLen(doc)), r : Plans(ValueLen(doc))]
  /\ e0 = ZeroEither
  /\ decPos = 0
  /\ cpc = "idle"
  /\ buf = <<>>
  /\ wn = 0
  /\ mw = [l |-> TRUE, r |-> TRUE]
  /\ cerr = Nil
  /\ pipe = [v \in Views |-> NewPipe]
  /\ closed = [v \in Views |-> FALSE]
  /\ mu = [v \in Views |-> "free"]
  /\ got = [v \in Views |-> <<>>]
  /\ stopKind = [v \in Views |-> "open"]
  /\ res = [v \in Views |-> "none"]
  /\ tpc = [v \in Views |-> "off"]
  /\ mpc = pc
  /\ wpc = "idle"
  /\ mpanic = NoPanic
  /\ panicVal = NoPanic
  /\ err = [v \in Views |-> Nil]
  /\ e = e0
  /\ ret = Running
  /\ nstop = [v \in Views |-> 0]
  /\ spaced \in BOOLEAN
  /\ werr = [v \in Views |-> Nil]
  /\ rj = NoCall
  /\ ou = NoCall

\* default branch, or the source fails at once
PipeStartInvalid ==
  /\ mpc = "pstart"
  /\ \/ fault.at = 0 /\ fault.kind # "none"
     \/ ~(IsOpenTok(doc[1]) \/ IsScalarTok(doc[1]))
  /\ ret' = IF fault.at = 0 /\ fault.kind = "panic"
            THEN RetPanic(PvSrc) ELSE RetErr(SrcErr)
  /\ mpc' = "done"
  /\ UNCHANGED <<decPos, cpc, buf, cerr, pipe, got, res, wpc, mpanic,
                 panicVal, err, e, werr>>
  /\ UNCHANGED <<inputVars, wn, mw, closed, mu, stopKind, tpc, nstop>>

\* case 'n', 'f', 't', '"', '0': val, err := dec.ReadValue(), then
\* json.Unmarshal(val, &l) and, when that fails, json.Unmarshal(val, &r)
PipeStartScalar ==
  /\ mpc = "pstart"
  /\ (fault.kind = "none" \/ fault.at # 0)
  /\ IsScalarTok(doc[1])
  /\ decPos' = 1
  /\ LET raw == RawValue(<<doc[1]>>)
         vl == Verdict("l", <<doc[1]>>)
         vr == Verdict("r", <<doc[1]>>)
     IN CASE vl.k = "panic" ->
               /\ ret' = RetPanic(vl.v)
               /\ UNCHANGED <<e, err>>
          [] vl.k = "go" ->
               /\ ret' = RetNil
               /\ e' = Reduce(Nil, Nil, raw, raw, e).e
               /\ UNCHANGED err
          [] vl.k = "fail" /\ vr.k = "panic" ->
               /\ ret' = RetPanic(vr.v)
               /\ err' = [l |-> vl.v, r |-> Nil]
               /\ UNCHANGED e
          [] vl.k = "fail" /\ vr.k = "go" ->
               /\ ret' = RetNil
               /\ e' = Reduce(vl.v, Nil, raw, raw, e).e
               /\ err' = [l |-> vl.v, r |-> Nil]
          [] OTHER ->
               /\ ret' = EitherErr(vl.v, vr.v)
               /\ err' = [l |-> vl.v, r |-> vr.v]
               /\ UNCHANGED e
  /\ mpc' = "done"
  /\ UNCHANGED <<cpc, buf, cerr, pipe, got, res, wpc, mpanic, panicVal, werr>>
  /\ UNCHANGED <<inputVars, wn, mw, closed, mu, stopKind, tpc, nstop>>

\* case '{', '[': both goroutines are started and json.UnmarshalRead(prr, &r)
\* begins on the calling goroutine
PipeStartComposite ==
  /\ mpc = "pstart"
  /\ (fault.kind = "none" \/ fault.at # 0)
  /\ IsOpenTok(doc[1])
  /\ cpc' = "pread"
  /\ LET vl == Verdict("l", <<>>)
         vr == Verdict("r", <<>>)
     IN  /\ wpc' = IF vl.k = "go" THEN "pldec"
                   ELSE IF vl.k = "fail" THEN "plclose" ELSE "panicked"
         /\ mpc' = IF vr.k = "go" THEN "prdec"
                   ELSE IF vr.k = "fail" THEN "prclose" ELSE "pd1"
         /\ mpanic' = IF vr.k = "panic" THEN vr.v ELSE mpanic
         /\ err' = [l |-> IF vl.k = "fail" THEN vl.v ELSE Nil,
                    r |-> IF vr.k = "fail" THEN vr.v ELSE Nil]
  /\ UNCHANGED <<decPos, buf, cerr, pipe, got, res, panicVal, e, ret, werr>>
  /\ UNCHANGED <<inputVars, wn, mw, closed, mu, stopKind, tpc, nstop>>

\* copy goroutine: tok, err = dec.ReadToken(), and both WriteToken calls when
\* neither encoder flushes; a panic of the source runs the deferred function
\* with err still nil
PipeCopyRead ==
  /\ cpc = "pread"
  /\ IF fault.kind # "none" /\ fault.at = decPos
     THEN /\ cerr' = (IF fault.kind = "err" THEN SrcErr ELSE Nil)
          /\ cpc' = (IF fault.kind = "err" THEN "pclose" ELSE "pclosep")
          /\ UNCHANGED <<decPos, buf>>
     ELSE IF decPos = Len(doc)
     THEN /\ cerr' = EOF
          /\ cpc' = "pclose"
          /\ UNCHANGED <<decPos, buf>>
     ELSE /\ decPos' = decPos + 1
          /\ buf' = Append(buf, doc[decPos + 1])
          /\ \E flush \in FlushChoices(SubSeq(doc, 1, decPos + 1), buf') :
               cpc' = IF flush THEN "pwl"
                      ELSE IF ValueComplete(SubSeq(doc, 1, decPos + 1))
                      THEN "pclose" ELSE "pread"
          /\ cerr' = Nil
  /\ werr' = [v \in Views |-> Nil]
  /\ UNCHANGED <<pipe, got, res, mpc, wpc, mpanic, panicVal, err, e, ret>>
  /\ UNCHANGED <<inputVars, wn, mw, closed, mu, stopKind, tpc, nstop>>

\* copy goroutine: the flush of encoder v ended with er
PipeWritten_noMask(v, er) ==
  /\ werr' = [werr EXCEPT ![v] = er]
  /\ IF er # Nil
     THEN cerr' = er /\ cpc' = "pclose" /\ UNCHANGED buf
     ELSE IF v = "l"
     THEN cpc' = "pwr" /\ UNCHANGED <<cerr, buf>>
     ELSE /\ buf' = <<>>
          /\ cerr' = Nil
          /\ cpc' = IF ValueComplete(Consumed) THEN "pclose" ELSE "pread"

PipeWritten(v, er) ==
  /\ werr' = [werr EXCEPT ![v] = er]
  /\ IF er # Nil /\ er # ErrFailedEarly
     THEN cerr' = er /\ cpc' = "pclose" /\ UNCHANGED buf
     ELSE IF v = "l"
     THEN cpc' = "pwr" /\ UNCHANGED <<cerr, buf>>
     ELSE IF werr.l # Nil /\ er # Nil
     THEN cerr' = ErrFailedEarly /\ cpc' = "pclose" /\ UNCHANGED buf
     ELSE /\ buf' = <<>>
          /\ cerr' = Nil
          /\ cpc' = IF ValueComplete(Consumed) THEN "pclose" ELSE "pread"

\* copy goroutine: the flush of encoder v starts, pw.Write(buf)
PipeCopyWrite(v) ==
  /\ cpc = (IF v = "l" THEN "pwl" ELSE "pwr")
  /\ IF PipeDone(pipe[v])
     THEN PipeWritten(v, WriteCloseError(pipe[v])) /\ UNCHANGED pipe
     ELSE /\ pipe' = [pipe EXCEPT ![v].pend = buf]
          /\ cpc' = (IF v = "l" THEN "pwlw" ELSE "pwrw")
          /\ UNCHANGED <<buf, cerr, werr>>
  /\ UNCHANGED <<decPos, got, res, mpc, wpc, mpanic, panicVal, err, e, ret>>
  /\ UNCHANGED <<inputVars, wn, mw, closed, mu, stopKind, tpc, nstop>>

\* copy goroutine: pw.Write(buf) returns, all bytes taken or the reader closed
PipeCopyWriteEnd(v) ==
  /\ cpc = (IF v = "l" THEN "pwlw" ELSE "pwrw")
  /\ IF pipe[v].pend = <<>>
     THEN PipeWritten(v, Nil) /\ UNCHANGED pipe
     ELSE /\ PipeDone(pipe[v])
          /\ PipeWritten(v, WriteCloseError(pipe[v]))
          /\ pipe' = [pipe EXCEPT ![v].pend = <<>>]
  /\ UNCHANGED <<decPos, got, res, mpc, wpc, mpanic, panicVal, err, e, ret>>
  /\ UNCHANGED <<inputVars, wn, mw, closed, mu, stopKind, tpc, nstop>>

\* copy goroutine, deferred: recoverStoreOnce() is not the deferred function
\* itself, so its recover() returns nil and stores nothing; both writers are
\* closed with err, wg.Done(); a panic then goes on unwinding the goroutine
PipeCopyClose ==
  /\ cpc \in {"pclose", "pclosep"}
  /\ pipe' = [v \in Views |-> CloseWrite(pipe[v], cerr)]
  /\ cpc' = IF cpc = "pclose" THEN "done" ELSE "panicked"
  /\ UNCHANGED <<decPos, buf, cerr, got, res, mpc, wpc, mpanic, panicVal,
                 err, e, ret, werr>>
  /\ UNCHANGED <<inputVars, wn, mw, closed, mu, stopKind, tpc, nstop>>

\* json.UnmarshalRead moves on after a Read of its pipe gave verdict o; a
\* panic of the L-side worker runs its deferred function, which recovers
\* nothing and calls wg.Done()
PipeAfter(s, o) ==
  /\ IF s = "l"
     THEN /\ wpc' = CASE o.k = "go" -> "pldec"
                      [] o.k = "fail" -> "plclose"
                      [] o.k = "panic" -> "panicked"
                      [] OTHER -> "done"
          /\ UNCHANGED <<mpc, mpanic>>
     ELSE /\ mpc' = CASE o.k = "go" -> "prdec"
                      [] o.k = "fail" -> "prclose"
                      [] o.k = "panic" -> "pd1"
                      [] OTHER -> "pwait"
          /\ mpanic' = IF o.k = "panic" THEN o.v ELSE mpanic
          /\ UNCHANGED wpc
  /\ err' = IF o.k = "fail" THEN [err EXCEPT ![s] = o.v] ELSE err

\* json.UnmarshalRead: one Read of the pipe
PipeRead(s) ==
  /\ IF s = "l" THEN wpc = "pldec" ELSE mpc = "prdec"
  /\ ReadReady(s)
  /\ IF PipeDone(pipe[s])
     THEN /\ res' = [res EXCEPT ![s] = ReadCloseError(pipe[s])]
          /\ PipeAfter(s, AfterRead(s, got[s], ReadCloseError(pipe[s])))
          /\ UNCHANGED <<pipe, got>>
     ELSE \E k \in 1..Min(MaxRead, Len(pipe[s].pend)) :
            /\ got' = [got EXCEPT ![s] = @ \o Take(pipe[s].pend, k)]
            /\ pipe' = [pipe EXCEPT ![s].pend = Drop(@, k)]
            /\ res' = [res EXCEPT ![s] = "data"]
            /\ PipeAfter(s, AfterRead(s, got'[s], "data"))
  /\ UNCHANGED <<decPos, cpc, buf, cerr, panicVal, e, ret, werr>>
  /\ UNCHANGED <<inputVars, wn, mw, closed, mu, stopKind, tpc, nstop>>

\* if err != nil { pr.CloseWithError(errUnmarshalFailedEarly) }
PipeFailedEarly(s) ==
  /\ IF s = "l" THEN wpc = "plclose" ELSE mpc = "prclose"
  /\ pipe' = [pipe EXCEPT ![s] = CloseRead(@, ErrFailedEarly)]
  /\ IF s = "l" THEN wpc' = "done" /\ UNCHANGED mpc
                ELSE mpc' = "pwait" /\ UNCHANGED wpc
  /\ UNCHANGED <<decPos, cpc, buf, cerr, got, res, mpanic, panicVal, err, e,
                 ret, werr>>
  /\ UNCHANGED <<inputVars, wn, mw, closed, mu, stopKind, tpc, nstop>>

\* wg.Wait(), which returns once both goroutines have called wg.Done();
\* if panicVal != nil { panic(panicVal) }; the reduction
PipeReduce ==
  /\ mpc = "pwait"
  /\ cpc \in {"done", "panicked"}
  /\ wpc \in {"done", "panicked"}
  /\ IF panicVal # NoPanic
     THEN /\ mpanic' = panicVal
          /\ UNCHANGED <<e, ret>>
     ELSE /\ e' = Reduce(err.l, err.r, got.l, got.r, e).e
          /\ ret' = Reduce(err.l, err.r, got.l, got.r, e).ret
          /\ UNCHANGED mpanic
  /\ mpc' = "pd1"
  /\ UNCHANGED <<decPos, cpc, buf, cerr, pipe, got, res, wpc, panicVal, err,
                 werr>>
  /\ UNCHANGED <<inputVars, wn, mw, closed, mu, stopKind, tpc, nstop>>

\* deferred: prl.Close(), then prr.Close()
PipeDeferClose(v) ==
  /\ mpc = (IF v = "l" THEN "pd1" ELSE "pd1r")
  /\ pipe' = [pipe EXCEPT ![v] = CloseRead(@, Nil)]
  /\ mpc' = (IF v = "l" THEN "pd1r" ELSE "pd2")
  /\ UNCHANGED <<decPos, cpc, buf, cerr, got, res, wpc, mpanic, panicVal,
                 err, e, ret, werr>>
  /\ UNCHANGED <<inputVars, wn, mw, closed, mu, stopKind, tpc, nstop>>

\* deferred: wg.Wait(); then control leaves the call
PipeDeferWait ==
  /\ mpc = "pd2"
  /\ cpc \in {"done", "panicked"}
  /\ wpc \in {"done", "panicked"}
  /\ mpc' = "done"
  /\ ret' = IF mpanic # NoPanic THEN RetPanic(mpanic) ELSE ret
  /\ UNCHANGED <<decPos, cpc, buf, cerr, pipe, got, res, wpc, mpanic,
                 panicVal, err, e, werr>>
  /\ UNCHANGED <<inputVars, wn, mw, closed, mu, stopKind, tpc, nstop>>

\* a panic that reached the top of its goroutine, the L-side worker's or the
\* copy goroutine's, ends the process, whatever the other goroutines are doing
PipeCrash ==
  LET escaped == IF wpc = "panicked" THEN PvL
                 ELSE IF cpc = "panicked" THEN PvSrc ELSE NoPanic
  IN /\ escaped # NoPanic
     /\ mpc' = IF mpc = "done" THEN mpc ELSE "crashed"
     /\ cpc' = IF cpc = "done" THEN cpc ELSE "crashed"
     /\ wpc' = IF wpc = "done" THEN wpc ELSE "crashed"
     /\ ret' = IF mpc = "done" THEN ret
               ELSE [kind |-> "crash", a |-> escaped, b |-> Nil]
     /\ UNCHANGED <<decPos, buf, cerr, pipe, got, res, mpanic, panicVal, err,
                    e, werr>>
     /\ UNCHANGED <<inputVars, wn, mw, closed, mu, stopKind, tpc, nstop>>

NextPipe ==
  \/ PipeStartInvalid
  \/ PipeStartScalar
  \/ PipeStartComposite
  \/ PipeRead("r")
  \/ PipeFailedEarly("r")
  \/ PipeReduce
  \/ PipeDeferClose("l")
  \/ PipeDeferClose("r")
  \/ PipeDeferWait
  \/ PipeRead("l")
  \/ PipeFailedEarly("l")
  \/ PipeCopyRead
  \/ PipeCopyWrite("l")
  \/ PipeCopyWriteEnd("l")
  \/ PipeCopyWrite("r")
  \/ PipeCopyWriteEnd("r")
  \/ PipeCopyClose
  \/ PipeCrash

\* one call of the pipe variant; the three goroutines run to their ends:
\* while one of them can take a step, or the process is dying of an escaped
\* panic, a step is taken
FairSpecPipe ==
  /\ InitCall("pstart")
  /\ [][NextPipe]_vars
  /\ WF_vars(NextPipe)

\* C28: pipe variant: a panic inside the copy goroutine or the L-side worker
\* is recovered by recoverStoreOnce at that goroutine's boundary, so no
\* goroutine ends by an escaped panic and the process is not brought down, and
\* a call that ends after such a panic ends by re-raising the stored value.
C28_PanicRecoveredAndReraised ==
  /\ cpc # "panicked"
  /\ wpc # "panicked"
  /\ ret.kind # "crash"
  /\ (mpc = "done" /\ panicVal # NoPanic) => ret = RetPanic(panicVal)

\* C29: pipe variant: under fair scheduling every call eventually completes
\* with the copy goroutine and the L-side worker finished, whatever the two
\* decode attempts and the source do.
C29_PipeCallCompletes ==
  <>(mpc = "done" /\ cpc \in {"idle", "done"} /\ wpc \in {"idle", "done"})

\* ------------------------------------ Either.UnmarshalJSONFrom, buffered
\* val, err := dec.ReadValue()
BufferedRead ==
  /\ mpc = "bstart"
  /\ IF fault.kind # "none"
     THEN /\ decPos' = fault.at
          /\ ret' = IF fault.kind = "panic" THEN RetPanic(PvSrc)
                    ELSE RetErr(SrcErr)
          /\ mpc' = "done"
     ELSE IF ~(IsOpenTok(doc[1]) \/ IsScalarTok(doc[1]))
     THEN /\ ret' = RetErr(SrcErr)
          /\ mpc' = "done"
          /\ UNCHANGED decPos
     ELSE /\ decPos' = ValueLen(doc)
          /\ mpc' = "bl"
          /\ UNCHANGED ret
  /\ UNCHANGED <<got, err, e>>
  /\ UNCHANGED <<inputVars, wn, mw, closed, mu, stopKind, tpc, nstop>>
  /\ UNCHANGED <<cpc, buf, cerr, pipe, res, wpc, mpanic, panicVal, werr>>

\* json.Unmarshal(val, &l) or json.Unmarshal(val, &r), and what follows it
BufferedUnmarshal(s) ==
  /\ mpc = (IF s = "l" THEN "bl" ELSE "br")
  /\ got' = [got EXCEPT ![s] = RawValue(ValueOf(doc))]
  /\ LET o == Verdict(s, ValueOf(doc))
         el == IF s = "l" THEN Nil ELSE err.l
     IN CASE o.k = "panic" ->
               /\ ret' = RetPanic(o.v)
               /\ mpc' = "done"
               /\ UNCHANGED <<err, e>>
          [] o.k = "go" ->
               /\ e' = Reduce(el, Nil, got'.l, got'.r, e).e
               /\ ret' = RetNil
               /\ mpc' = "done"
               /\ UNCHANGED err
          [] OTHER ->
               /\ err' = [err EXCEPT ![s] = o.v]
               /\ IF s = "l" THEN mpc' = "br" /\ UNCHANGED ret
                  ELSE mpc' = "done" /\ ret' = EitherErr(err.l, o.v)
               /\ UNCHANGED e
  /\ UNCHANGED decPos
  /\ UNCHANGED <<inputVars, wn, mw, closed, mu, stopKind, tpc, nstop>>
  /\ UNCHANGED <<cpc, buf, cerr, pipe, res, wpc, mpanic, panicVal, werr>>

\* ------------------------------------------------- the three variants
\* one call of the TeeDecoder variant, of the pipe variant or of the
\* buffered variant, each on any of the same inputs
SpecVariants ==
  /\ \E pc \in {"start", "pstart", "bstart"} : InitCall(pc)
  /\ [][\/ Next
        \/ NextPipe
        \/ BufferedRead
        \/ BufferedUnmarshal("l")
        \/ BufferedUnmarshal("r")]_vars

\* C26: in the composite case the tokens a call consumes from the source
\* are a prefix of the value present on entry, never a token past its
\* closing token, and a call that returns Left or Right has consumed the
\* entire value.
C26_ConsumesPrefixOfValue ==
  Composite =>
    /\ decPos <= ValueLen(doc)
    /\ (mpc = "done" /\ ret = RetNil) => decPos = ValueLen(doc)

\* what the buffered variant makes of the input: the whole value is read,
\* then L is tried on its text, then R
BufferedResult ==
  IF fault.kind # "none" \/ ~Readable THEN [disc |-> "failure", e |-> e0]
  ELSE IF plan.l.kind = "accept"
  THEN [disc |-> "Left", e |-> LeftOf(RawValue(ValueOf(doc)))]
  ELSE IF plan.r.kind = "accept"
  THEN [disc |-> "Right", e |-> RightOf(RawValue(ValueOf(doc)))]
  ELSE [disc |-> "failure", e |-> e0]

EitherTokens(x) ==
  LET token(t) == t # " "
      tokensOf(v) == IF v = Zero THEN Zero ELSE <<v[1], SelectSeq(v[2], token)>>
  IN [isRight |-> x.isRight, l |-> tokensOf(x.l), r |-> tokensOf(x.r)]

FairSpecClose ==
  /\ SpecTee
  /\ WF_vars(CopyTask)
  /\ WF_vars(TeeReadEnd("l"))
  /\ WF_vars(TeeReadEnd("r"))
  /\ WF_vars(TeeCloseEnd("l"))
  /\ WF_vars(TeeCloseEnd("r"))

\* C31: teeReader.Close on either view of a composite value eventually
\* returns, whatever the other view's consumer does or leaves undone.
C31_CloseReturns ==
  \A v \in Views : (tpc[v] = "cls") ~> (tpc[v] # "cls")

\* C32: multiPipeWriter.Write never calls CloseWithError on a branch writer
\* it has already dropped: the copy task never ends by the nil dereference
\* of that call, in whatever order the clients stop and close the views.
C32_NoDroppedWriterClosed ==
  cerr # PanicErrOf(PvNilDeref)

====
